---- MODULE Spec2Model ----
(***************************************************************************)
(* Model of setlist-maker's reconciliation of per-sample recognition       *)
(* results into a tracklist (setlist_maker/cli.py) and of the correction   *)
(* store (setlist_maker/editor.py, CorrectionsDB).                         *)
(*                                                                         *)
(* Conventions.  A Python str is a sequence of one-character strings, so   *)
(* that lower() and strip() are computed character by character.  Python's *)
(* None is `None' where a str or a tuple is expected and `NoInfo' where a  *)
(* track_info dict is expected (`if track_info:' is false exactly there).  *)
(* A track_info dict is a record; an absent key is a field absent from the *)
(* record's DOMAIN, read through Get as dict.get reads it.                 *)
(***************************************************************************)
EXTENDS Integers, Sequences, FiniteSets

VARIABLES
    raw_results,   \* list[tuple[int, dict | None]] handed to results_to_tracklist
    deduped,       \* results_to_tracklist's local: deduplicate_tracklist's output
    result,        \* what results_to_tracklist returned, or what it raised
    pc,            \* "start" before that call, "done" after it
    corrections,   \* CorrectionsDB.corrections: normalized key -> correction
    tracklist,     \* Tracklist.tracks of the tracklist given to apply_corrections
    before,        \* those tracks as they were when apply_corrections was called
    applied,       \* what apply_corrections returned
    db_file,       \* the file at CorrectionsDB.db_path
    db_pc,         \* "new" before CorrectionsDB(db_path), "loaded" after it, then "used"
    db_raised,     \* the exception a CorrectionsDB call let escape, "none" if none
    corrections_type,  \* type(self.corrections): "dict" unless _load read another
    answers,       \* what identify_sample_with_retry returns for each sample of the file
    audio_ok,      \* whether load_audio succeeds on the file
    resume,        \* process_single_file's parameter
    run_pc,        \* where process_single_file stands
    idx,           \* its loop variable i (samples are numbered from 1)
    start_index,   \* its local of that name
    sample_info,   \* its local track_info
    progress,      \* the file at progress_path
    output,        \* the file at output_path
    calls,         \* the samples given to identify_sample_with_retry in this run
    sleeps,        \* the samples after which this run slept for delay_seconds
    runs,          \* how many times process_single_file was started
    retry_pc,      \* where identify_sample_with_retry stands
    attempt,       \* its loop variable
    backoff,       \* its local of that name
    waits,         \* the wait_time of each backoff sleep of this call
    attempts_made, \* the shazam.recognize calls of this call
    last_outcome,  \* what the last shazam.recognize call gave or raised
    retry_result,  \* what identify_sample_with_retry returned
    files,         \* process_batch's audio_files: whether each loads, and its samples
    batch_pc,      \* where process_batch stands
    batch_idx,     \* its loop variable idx
    batch_results, \* its local results
    batch_calls,   \* the recognition calls made so far: (file, sample)
    md_tracks,     \* Tracklist.tracks of the tracklist given to to_markdown
    markdown,      \* the lines to_markdown returned
    parsed,        \* Tracklist.tracks of what parse_markdown_tracklist returned
    md_pc,         \* "start", then "written" after to_markdown, "parsed" after parsing
    sidecar,       \* the JSON file beside the markdown file: whether it exists, its records
    coverart_urls, \* the dict _load_tracklist_with_artwork_urls returned
    audio_file,    \* TracklistEditor.audio_file: whether find_audio_file found one
    sounddevice_available, \* SOUNDDEVICE_AVAILABLE
    unsaved_changes, \* TracklistEditor.unsaved_changes
    playback_engine, \* TracklistEditor.playback_engine: 0 for None, or which engine
    engines,       \* the PlaybackEngine objects created so far: _playing, _stream, _lock
    streams,       \* the sd.OutputStream objects created so far: state and creating engine
    loading_audio, \* TracklistEditor._loading_audio
    playback_timer, \* whether TracklistEditor._playback_timer is set
    timers,        \* how many timers set by _on_playback_started run
    workers,       \* the _start_playback_worker threads started: where each stands
    thread_calls,  \* the callbacks call_from_thread has handed to the main thread, and by whom
    exited,        \* whether TracklistEditor.exit() was called
    main           \* the handler the main thread is in, and the statement it stands before

recon_vars == <<raw_results, deduped, result, pc>>
store_vars == <<corrections, tracklist, before, applied>>
load_vars == <<db_file, db_pc, db_raised, corrections_type>>
run_vars ==
    <<answers, audio_ok, resume, run_pc, idx, start_index, sample_info, progress,
      output, calls, sleeps, runs>>

retry_vars ==
    <<retry_pc, attempt, backoff, waits, attempts_made, last_outcome, retry_result>>

batch_vars == <<files, batch_pc, batch_idx, batch_results, batch_calls>>
md_vars == <<md_tracks, markdown, parsed, md_pc, sidecar, coverart_urls>>
play_vars ==
    <<audio_file, sounddevice_available, unsaved_changes, playback_engine, engines, streams,
      loading_audio, playback_timer, timers, workers, thread_calls, exited, main>>

\* the variables declared after process_batch's, after identify_sample_with_retry's,
\* after process_single_file's, after the store file's, and after the correction
\* store's
after_batch_vars == <<md_vars, play_vars>>
after_retry_vars == <<batch_vars, after_batch_vars>>
after_run_vars == <<retry_vars, after_retry_vars>>
after_load_vars == <<run_vars, after_run_vars>>
other_vars == <<load_vars, after_load_vars>>

vars == <<recon_vars, store_vars, other_vars>>

\* ------------------------------------------------------------------------
\* Python values

None == <<"None">>
NoInfo == [none |-> TRUE]
\* None where an int is expected (timestamps and counts are never negative)
NoInt == -1
\* corrections_db=None
NoDB == [none |-> TRUE]
\* no call has returned yet
NotCalled == [called |-> FALSE]
\* the call raised TypeError
TypeError == [raised |-> "TypeError"]

\* dict.get(key): the value, None when the key is absent
Get(d, k) == IF k \in DOMAIN d THEN d[k] ELSE None

\* the upper-case letters and, at the same positions, the lower-case ones
UpperLetters ==
    <<"A", "B", "C", "D", "E", "F", "G", "H", "I", "J", "K", "L", "M",
      "N", "O", "P", "Q", "R", "S", "T", "U", "V", "W", "X", "Y", "Z">>

LowerLetters ==
    <<"a", "b", "c", "d", "e", "f", "g", "h", "i", "j", "k", "l", "m",
      "n", "o", "p", "q", "r", "s", "t", "u", "v", "w", "x", "y", "z">>

\* str.lower() on one character of the ASCII range
LowerChar(c) ==
    IF \E k \in DOMAIN UpperLetters : UpperLetters[k] = c
    THEN LowerLetters[CHOOSE k \in DOMAIN UpperLetters : UpperLetters[k] = c]
    ELSE c

\* str.lower()
Lower(s) == [i \in DOMAIN s |-> LowerChar(s[i])]

\* `sub in s' for two strs
Contains(sub, s) ==
    \E i \in 1..(Len(s) - Len(sub) + 1) : SubSeq(s, i, i + Len(sub) - 1) = sub

\* whitespace, as str.strip() and the regular expressions' \s take it
IsSpace(c) == c \in {" ", "\n", "\t"}

\* str.strip(): drop leading and trailing whitespace
RECURSIVE LStrip(_)
LStrip(s) == IF s # <<>> /\ IsSpace(Head(s)) THEN LStrip(Tail(s)) ELSE s

RECURSIVE RStrip(_)
RStrip(s) ==
    IF s # <<>> /\ IsSpace(s[Len(s)]) THEN RStrip(SubSeq(s, 1, Len(s) - 1)) ELSE s

Strip(s) == RStrip(LStrip(s))

\* ------------------------------------------------------------------------
\* deduplicate_tracklist (cli.py)

\* (variant: the key compared without lower())
TrackKeyCaseSensitive(track_info) == <<track_info["title"], track_info["artist"]>>

\* key = (track_info["title"].lower(), track_info["artist"].lower())
TrackKey(track_info) == <<Lower(track_info["title"]), Lower(track_info["artist"])>>

\* track_counts[key] after the counting loop
track_counts(results, key) ==
    Cardinality({i \in DOMAIN results :
                    /\ results[i][2] # NoInfo
                    /\ TrackKey(results[i][2]) = key})

\* (variant: the singleton test written as track_counts[key] == 0)
IsSingletonNever(results, track_info) ==
    track_counts(results, TrackKey(track_info)) = 0

\* (variant: the singleton test written as track_counts[key] <= 2)
IsSingletonUpToTwo(results, track_info) ==
    track_counts(results, TrackKey(track_info)) <= 2

\* track_counts[key] == 1
IsSingleton(results, track_info) ==
    track_counts(results, TrackKey(track_info)) = 1

\* filtered_results: singletons replaced by None
filtered_results(results) ==
    [i \in DOMAIN results |->
        IF results[i][2] # NoInfo
        THEN IF IsSingleton(results, results[i][2])
             THEN <<results[i][1], NoInfo>>
             ELSE <<results[i][1], results[i][2]>>
        ELSE <<results[i][1], NoInfo>>]

\* the state of the consecutive-deduplication loop before its first iteration
WalkInit ==
    [tracklist |-> <<>>, last_track_key |-> None, pending_unidentified |-> NoInt]

\* (variant: a change of track that forgets the pending gap)
EmitChangeNoGap(st, timestamp, track_info) ==
    [tracklist |-> Append(st.tracklist, <<timestamp, track_info>>),
     last_track_key |-> TrackKey(track_info),
     pending_unidentified |-> NoInt]

\* (variant: a change of track that appends the pending gap after the new track)
EmitChangeGapAfter(st, timestamp, track_info) ==
    LET withtrack == Append(st.tracklist, <<timestamp, track_info>>)
    IN [tracklist |-> IF st.pending_unidentified # NoInt
                      THEN Append(withtrack, <<st.pending_unidentified, NoInfo>>)
                      ELSE withtrack,
        last_track_key |-> TrackKey(track_info),
        pending_unidentified |-> NoInt]

\* the gap-emitting branch of an iteration whose key differs from last_track_key
EmitChange(st, timestamp, track_info) ==
    LET withgap == IF st.pending_unidentified # NoInt
                   THEN Append(st.tracklist, <<st.pending_unidentified, NoInfo>>)
                   ELSE st.tracklist
    IN [tracklist |-> Append(withgap, <<timestamp, track_info>>),
        last_track_key |-> TrackKey(track_info),
        pending_unidentified |-> NoInt]

\* (variant: a gap is recorded also before any track was seen)
WalkStepLeadingGap(st, entry) ==
    LET timestamp == entry[1]
        track_info == entry[2]
    IN IF track_info = NoInfo
       THEN IF st.pending_unidentified = NoInt
            THEN [st EXCEPT !.pending_unidentified = timestamp]
            ELSE st
       ELSE IF TrackKey(track_info) # st.last_track_key
            THEN EmitChange(st, timestamp, track_info)
            ELSE st

\* (variant: a resumption of the same track clears the pending gap)
WalkStepClearsGap(st, entry) ==
    LET timestamp == entry[1]
        track_info == entry[2]
    IN IF track_info = NoInfo
       THEN IF st.last_track_key # None /\ st.pending_unidentified = NoInt
            THEN [st EXCEPT !.pending_unidentified = timestamp]
            ELSE st
       ELSE IF TrackKey(track_info) # st.last_track_key
            THEN EmitChange(st, timestamp, track_info)
            ELSE [st EXCEPT !.pending_unidentified = NoInt]

\* one iteration of `for timestamp, track_info in filtered_results'
WalkStep(st, entry) ==
    LET timestamp == entry[1]
        track_info == entry[2]
    IN IF track_info = NoInfo
       THEN IF st.last_track_key # None /\ st.pending_unidentified = NoInt
            THEN [st EXCEPT !.pending_unidentified = timestamp]
            ELSE st
       ELSE IF TrackKey(track_info) # st.last_track_key
            THEN EmitChange(st, timestamp, track_info)
            ELSE st

\* the loop's state after its first n iterations
RECURSIVE Walk(_, _)
Walk(filtered, n) ==
    IF n = 0 THEN WalkInit ELSE WalkStep(Walk(filtered, n - 1), filtered[n])

\* (variant: a gap still pending at the end is dropped)
TrailingDropped(st) == st.tracklist

\* "Handle trailing unidentified"
Trailing(st) ==
    IF st.pending_unidentified # NoInt
    THEN Append(st.tracklist, <<st.pending_unidentified, NoInfo>>)
    ELSE st.tracklist

deduplicate_tracklist(results) ==
    LET filtered == filtered_results(results)
    IN Trailing(Walk(filtered, Len(filtered)))

\* ------------------------------------------------------------------------
\* CorrectionsDB (editor.py)

Sep == <<"|", "|", "|">>

\* (variant: the key built without strip())
make_key_unstripped(artist, title) == Lower(artist) \o Sep \o Lower(title)

\* f"{artist.lower().strip()}|||{title.lower().strip()}"
make_key(artist, title) == Strip(Lower(artist)) \o Sep \o Strip(Lower(title))

\* self.corrections after add_correction; corrected_at (the wall clock) is left out
add_correction(corr, original_artist, original_title, corrected_artist, corrected_title) ==
    LET key == make_key(original_artist, original_title)
        entry == [artist |-> corrected_artist, title |-> corrected_title,
                  original_artist |-> original_artist,
                  original_title |-> original_title]
    IN [k \in DOMAIN corr \cup {key} |->
            IF k = key THEN entry ELSE corr[k]]

get_correction(corr, artist, title) ==
    LET key == make_key(artist, title)
    IN IF key \in DOMAIN corr
       THEN <<corr[key].artist, corr[key].title>>
       ELSE None

\* (variant: only None fields, not empty strings, make a track unidentified)
is_unidentified_none(track) == track.artist = None /\ track.title = None

\* Track.is_unidentified: not self.artist and not self.title
is_unidentified(track) == track.artist = <<>> /\ track.title = <<>>

\* one iteration of apply_corrections' loop: the track afterwards
ApplyToTrack(corr, track) ==
    LET correction == IF is_unidentified(track)
                      THEN None
                      ELSE get_correction(corr, track.artist, track.title)
    IN IF correction # None
       THEN [track EXCEPT !.original_artist = track.artist,
                          !.original_title = track.title,
                          !.artist = correction[1],
                          !.title = correction[2]]
       ELSE track

\* the iterations of apply_corrections' loop that reach `applied += 1'
AppliedTo(corr, tracks) ==
    {i \in DOMAIN tracks :
        /\ ~is_unidentified(tracks[i])
        /\ get_correction(corr, tracks[i].artist, tracks[i].title) # None}

\* (variant: only the tracks whose artist or title changed are counted)
apply_corrections_counting_changes(corr, tracks) ==
    LET after == [i \in DOMAIN tracks |-> ApplyToTrack(corr, tracks[i])]
    IN [tracks |-> after,
        applied |-> Cardinality({i \in DOMAIN tracks :
                                    \/ after[i].artist # tracks[i].artist
                                    \/ after[i].title # tracks[i].title})]

\* apply_corrections(tracklist): the tracks it leaves and the count it returns
apply_corrections(corr, tracks) ==
    [tracks |-> [i \in DOMAIN tracks |-> ApplyToTrack(corr, tracks[i])],
     applied |-> Cardinality(AppliedTo(corr, tracks))]

\* ------------------------------------------------------------------------
\* Track (editor.py) and results_to_tracklist (cli.py)

\* the fields of the Track dataclass
TrackFields ==
    {"timestamp", "artist", "title", "rejected", "shazam_url", "album",
     "original_artist", "original_title"}

TrackDefault(f) == IF f = "rejected" THEN FALSE ELSE None

\* Track(**kw): the dataclass's generated __init__ raises TypeError on a keyword
\* that is no field
Track(kw) ==
    IF DOMAIN kw \subseteq TrackFields
    THEN [f \in TrackFields |-> IF f \in DOMAIN kw THEN kw[f] ELSE TrackDefault(f)]
    ELSE TypeError

\* dict.get(key, default)
GetOr(d, k, default) == IF k \in DOMAIN d THEN d[k] ELSE default

\* "Apply corrections before deduplication": one (timestamp, track_info)
CorrectEntry(db, entry) ==
    LET track_info == entry[2]
        correction == IF track_info # NoInfo
                      THEN get_correction(db.corrections,
                                          track_info["artist"], track_info["title"])
                      ELSE None
    IN IF track_info # NoInfo /\ correction # None
       THEN <<entry[1],
              [k \in DOMAIN track_info \cup {"original_artist", "original_title"} |->
                  CASE k = "original_artist" -> track_info["artist"]
                    [] k = "original_title" -> track_info["title"]
                    [] k = "artist" -> correction[1]
                    [] k = "title" -> correction[2]
                    [] OTHER -> track_info[k]]>>
       ELSE entry

corrected_results(results, corrections_db) ==
    IF corrections_db # NoDB
    THEN [i \in DOMAIN results |-> CorrectEntry(corrections_db, results[i])]
    ELSE results

\* "Convert to Track objects": one entry of deduped
ToTrack(entry) ==
    LET timestamp == entry[1]
        track_info == entry[2]
    IN IF track_info # NoInfo
       THEN Track([timestamp |-> timestamp,
                   artist |-> GetOr(track_info, "artist", <<>>),
                   title |-> GetOr(track_info, "title", <<>>),
                   shazam_url |-> Get(track_info, "shazam_url"),
                   album |-> Get(track_info, "album"),
                   coverart_url |-> Get(track_info, "coverart_url"),
                   original_artist |-> Get(track_info, "original_artist"),
                   original_title |-> Get(track_info, "original_title")])
       ELSE Track([timestamp |-> timestamp, artist |-> <<>>, title |-> <<>>])

\* datetime.now().strftime(...): the clock is not modelled
Now == <<"n", "o", "w">>

\* "Convert to Track objects" and the return: a Tracklist, or the TypeError that a
\* Track(...) call raised
ConvertToTracks(d, source_filename) ==
    LET tracks == [i \in DOMAIN d |-> ToTrack(d[i])]
    IN IF \E i \in DOMAIN tracks : tracks[i] = TypeError
       THEN TypeError
       ELSE [source_file |-> source_filename, tracks |-> tracks,
             generated_on |-> Now]

results_to_tracklist(results, source_filename, corrections_db) ==
    ConvertToTracks(deduplicate_tracklist(corrected_results(results, corrections_db)),
                    source_filename)

\* ------------------------------------------------------------------------
\* Reconciliation of one recording's raw results, no correction store

\* the most samples of a recording
MaxSamples == 6

\* SAMPLE_DURATION_MS // 1000: slice_audio starts sample i at 30 * (i - 1) seconds
SampleSeconds == 30

\* what identify_sample_with_retry returned for a sample: a track with all its
\* metadata, the same track in other letter case with none, a second track, and a
\* track sharing the first one's title under another artist
InfoA ==
    [title |-> <<"t">>, artist |-> <<"p">>, shazam_url |-> <<"u">>,
     album |-> <<"l">>, coverart_url |-> <<"c">>]
InfoAUpper ==
    [title |-> <<"T">>, artist |-> <<"P">>, shazam_url |-> None,
     album |-> None, coverart_url |-> None]
InfoB == [title |-> <<"b">>, artist |-> <<"p">>]
InfoC == [title |-> <<"t">>, artist |-> <<"q">>]

Infos == {InfoA, InfoAUpper, InfoB, InfoC}

\* slice_audio's timestamps attached to a sequence of recognition results
Stamp(infos) == [i \in DOMAIN infos |-> <<SampleSeconds * (i - 1), infos[i]>>]

RawInputs ==
    {Stamp(infos) : infos \in UNION {[1..n -> Infos \cup {NoInfo}] : n \in 0..MaxSamples}}

SourceName == <<"f">>

\* no results_to_tracklist call is under way
ReconIdle ==
    /\ raw_results = <<>>
    /\ deduped = <<>>
    /\ result = NotCalled
    /\ pc = "start"

\* no file at db_path
NoFile ==
    [exists |-> FALSE, parses |-> FALSE, kind |-> "none", has_corrections |-> FALSE,
     corrections_kind |-> "none", corrections |-> <<>>]

\* CorrectionsDB(db_path) has returned for a path that does not exist
LoadIdle ==
    /\ db_file = NoFile
    /\ db_pc = "used"
    /\ db_raised = "none"
    /\ corrections_type = "dict"

\* no file at progress_path
NoSnapshot == [exists |-> FALSE, complete |-> FALSE, results |-> <<>>]

\* no file at output_path
NoOutput == [written |-> FALSE, tracklist |-> NotCalled]

\* process_single_file has not been called
RunIdle ==
    /\ answers = <<>>
    /\ audio_ok = TRUE
    /\ resume = TRUE
    /\ run_pc = "idle"
    /\ idx = 0
    /\ start_index = 0
    /\ sample_info = NoInfo
    /\ progress = NoSnapshot
    /\ output = NoOutput
    /\ calls = <<>>
    /\ sleeps = <<>>
    /\ runs = 0

\* shazam.recognize has not been called
NoOutcome == [kind |-> "none", text |-> <<>>]

\* identify_sample_with_retry has not been called
RetryIdle ==
    /\ retry_pc = "idle"
    /\ attempt = 0
    /\ backoff = 0
    /\ waits = <<>>
    /\ attempts_made = 0
    /\ last_outcome = NoOutcome
    /\ retry_result = NoInfo

\* process_batch has not been called
BatchIdle ==
    /\ files = <<>>
    /\ batch_pc = "idle"
    /\ batch_idx = 0
    /\ batch_results = <<>>
    /\ batch_calls = <<>>

\* no JSON file beside the markdown file
NoSidecar == [exists |-> FALSE, tracks |-> <<>>]

\* to_markdown has not been called
MarkdownIdle ==
    /\ md_tracks = <<>>
    /\ markdown = <<>>
    /\ parsed = <<>>
    /\ md_pc = "start"
    /\ sidecar = NoSidecar
    /\ coverart_urls = <<>>

\* no editor is open
PlayIdle ==
    /\ audio_file = FALSE
    /\ sounddevice_available = FALSE
    /\ unsaved_changes = FALSE
    /\ playback_engine = 0
    /\ engines = <<>>
    /\ streams = <<>>
    /\ loading_audio = FALSE
    /\ playback_timer = FALSE
    /\ timers = 0
    /\ workers = <<>>
    /\ thread_calls = <<>>
    /\ exited = FALSE
    /\ main = [name |-> "idle", at |-> "idle", engine |-> 0]

\* the operations modelled after the correction store's have not started
OtherIdle == LoadIdle /\ RunIdle /\ RetryIdle /\ BatchIdle /\ MarkdownIdle /\ PlayIdle

\* CorrectionsDB(db_path) on a path that does not exist, and no tracklist yet
StoreIdle ==
    /\ corrections = <<>>
    /\ tracklist = <<>>
    /\ before = <<>>
    /\ applied = NoInt

StoreInit == StoreIdle /\ OtherIdle

Init ==
    /\ raw_results \in RawInputs
    /\ deduped = <<>>
    /\ result = NotCalled
    /\ pc = "start"
    /\ StoreInit

\* tracklist = results_to_tracklist(raw_results, name) with corrections_db=None;
\* deduped is its local of that name
ResultsToTracklist ==
    /\ pc = "start"
    /\ deduped' = deduplicate_tracklist(corrected_results(raw_results, NoDB))
    /\ result' = ConvertToTracks(deduped', SourceName)
    /\ pc' = "done"
    /\ UNCHANGED <<raw_results, store_vars, other_vars>>

Next == ResultsToTracklist

Spec == Init /\ [][Next]_vars

\* ------------------------------------------------------------------------
\* Properties of reconciliation

Done == pc = "done"

Ts(i) == raw_results[i][1]
Matched(i) == raw_results[i][2] # NoInfo

\* the normalized key the properties speak of: title and artist in lower case
NormKey(track_info) == <<Lower(track_info.title), Lower(track_info.artist)>>

SameKey(i, j) ==
    /\ Matched(i)
    /\ Matched(j)
    /\ NormKey(raw_results[i][2]) = NormKey(raw_results[j][2])

\* the samples of the input that carry sample i's key
Occurrences(i) == {j \in DOMAIN raw_results : SameKey(i, j)}

NonSingleton(i) == Matched(i) /\ Cardinality(Occurrences(i)) >= 2

Identified(entry) == entry[2] # NoInfo

IsOfKey(entry, i) == Identified(entry) /\ NormKey(entry[2]) = NormKey(raw_results[i][2])

\* samples a+1 .. b-1 exist and are all unmatched
UnmatchedBetween(a, b) ==
    /\ b - a >= 2
    /\ \A n \in (a + 1)..(b - 1) : ~Matched(n)

StrictlyAscending(timestamps) ==
    \A m \in DOMAIN timestamps :
        m + 1 \in DOMAIN timestamps => timestamps[m] < timestamps[m + 1]

\* C1: a matched key that occurs in exactly one sample of the input is never the key
\* of an identified output entry, and the output is the one obtained with that
\* sample replaced by an unmatched one; [A@0, A@30, B@60] gives [A@0, unidentified@60].
C1_SingletonSuppressed ==
    Done =>
        /\ \A i \in DOMAIN raw_results :
              (Matched(i) /\ Occurrences(i) = {i}) =>
                  /\ \A m \in DOMAIN deduped : ~IsOfKey(deduped[m], i)
                  /\ deduped =
                       deduplicate_tracklist([raw_results EXCEPT ![i] = <<Ts(i), NoInfo>>])
        /\ raw_results = Stamp(<<InfoA, InfoA, InfoB>>) =>
              deduped = <<<<0, InfoA>>, <<60, NoInfo>>>>

C1_Witness ==
    /\ Done
    /\ raw_results = Stamp(<<InfoA, InfoA, InfoB>>)
    /\ Len(deduped) = 2

\* samples i..j are a maximal run of matched samples with one normalized key
MaximalRun(i, j) ==
    /\ i <= j
    /\ \A n \in i..j : SameKey(i, n)
    /\ (i - 1 \in DOMAIN raw_results => ~SameKey(i, i - 1))
    /\ (j + 1 \in DOMAIN raw_results => ~SameKey(i, j + 1))

\* C2: a maximal run of consecutive matched samples with one normalized key has at
\* most one output entry within its time span; that entry is at the run's first
\* timestamp and carries the first sample's record (a one-sample run of a singleton
\* key has an unidentified entry or none); three samples of one track, in whatever
\* letter case, give exactly one entry, the first sample at timestamp 0.
C2_RunCollapses ==
    Done =>
        /\ \A i, j \in DOMAIN raw_results :
              MaximalRun(i, j) =>
                  LET inrun == {m \in DOMAIN deduped :
                                   Ts(i) <= deduped[m][1] /\ deduped[m][1] <= Ts(j)}
                  IN /\ Cardinality(inrun) <= 1
                     /\ \A m \in inrun :
                           /\ deduped[m][1] = Ts(i)
                           /\ IF NonSingleton(i)
                              THEN deduped[m][2] = raw_results[i][2]
                              ELSE deduped[m][2] = NoInfo
        /\ (/\ Len(raw_results) = 3
            /\ \A n \in 1..3 : raw_results[n][2] \in {InfoA, InfoAUpper}) =>
              deduped = <<<<0, raw_results[1][2]>>>>

C2_Witness ==
    /\ Done
    /\ raw_results = Stamp(<<InfoAUpper, InfoA, InfoAUpper>>)
    /\ deduped = <<<<0, InfoAUpper>>>>

\* track A at sample i, then only unmatched samples, then a different track B at
\* sample k, both keys occurring at least twice in the input
GapBetweenTracks(i, k) ==
    /\ UnmatchedBetween(i, k)
    /\ Matched(i)
    /\ Matched(k)
    /\ ~SameKey(i, k)
    /\ NonSingleton(i)
    /\ NonSingleton(k)

\* the first unmatched or singleton sample after timestamp t
FirstGapAfter(t) ==
    LET gaps == {n \in DOMAIN raw_results : Ts(n) > t /\ ~NonSingleton(n)}
    IN Ts(CHOOSE n \in gaps : \A o \in gaps : n <= o)

\* C3 as claimed: A, then an unidentified entry at the first unmatched sample of
\* the stretch that separates A from B, then B at its first sample after it.
C3_Original ==
    Done =>
        \A i, k \in DOMAIN raw_results :
            GapBetweenTracks(i, k) =>
                \E m \in DOMAIN deduped :
                    /\ IsOfKey(deduped[m], i)
                    /\ m + 2 \in DOMAIN deduped
                    /\ deduped[m + 1] = <<Ts(i + 1), NoInfo>>
                    /\ deduped[m + 2] = <<Ts(k), raw_results[k][2]>>

\* C3 (amended): A, then exactly one unidentified entry at the timestamp of the
\* first unmatched or singleton sample that follows A's output entry (the stretch's
\* first sample when A's run was not interrupted before), then B at the first sample
\* after the stretch; [A@0, A@30, none@60, none@90, B@120, B@150] gives
\* A@0, unidentified@60, B@120.
C3_GapBetweenTracks ==
    Done =>
        /\ \A i, k \in DOMAIN raw_results :
              GapBetweenTracks(i, k) =>
                  \E m \in DOMAIN deduped :
                      /\ IsOfKey(deduped[m], i)
                      /\ deduped[m][1] <= Ts(i)
                      /\ m + 2 \in DOMAIN deduped
                      /\ deduped[m + 1] = <<FirstGapAfter(deduped[m][1]), NoInfo>>
                      /\ deduped[m + 2] = <<Ts(k), raw_results[k][2]>>
        /\ raw_results = Stamp(<<InfoA, InfoA, NoInfo, NoInfo, InfoB, InfoB>>) =>
              deduped = <<<<0, InfoA>>, <<60, NoInfo>>, <<120, InfoB>>>>

C3_Witness ==
    /\ Done
    /\ raw_results = Stamp(<<InfoA, NoInfo, InfoA, NoInfo, InfoB, InfoB>>)
    /\ deduped = <<<<0, InfoA>>, <<30, NoInfo>>, <<120, InfoB>>>>

AllUnmatched == raw_results # <<>> /\ \A i \in DOMAIN raw_results : ~Matched(i)

\* Track(timestamp=timestamp, artist="", title="")
UnidentifiedTrack(timestamp) ==
    [timestamp |-> timestamp, artist |-> <<>>, title |-> <<>>, rejected |-> FALSE,
     shazam_url |-> None, album |-> None, original_artist |-> None,
     original_title |-> None]

IsTracklist(r) == r # NotCalled /\ r # TypeError

\* C4 as claimed: an all-unmatched input gives exactly one unidentified entry at the
\* first timestamp.
C4_Original ==
    (Done /\ AllUnmatched) =>
        /\ deduped = <<<<Ts(1), NoInfo>>>>
        /\ IsTracklist(result)
        /\ result.tracks = <<UnidentifiedTrack(Ts(1))>>

\* C4 (amended): a non-empty input whose entries are all unmatched gives no entry at
\* all: deduplicate_tracklist returns the empty list and results_to_tracklist a
\* Tracklist without tracks.
C4_AllUnmatchedEmpty ==
    (Done /\ AllUnmatched) =>
        /\ deduped = <<>>
        /\ IsTracklist(result)
        /\ result.tracks = <<>>

C4_Witness ==
    /\ AllUnmatched
    /\ Len(raw_results) >= 2
    /\ Done
    /\ result = [source_file |-> SourceName, tracks |-> <<>>, generated_on |-> Now]

\* samples a..b are a maximal stretch of unmatched samples and sample b+1 is a
\* matched sample, kept by the singleton filter, whose key equals last_track_key
Resumption(filtered, a, b) ==
    /\ a <= b
    /\ b + 1 \in DOMAIN raw_results
    /\ \A n \in a..b : ~Matched(n)
    /\ (a - 1 \in DOMAIN raw_results => Matched(a - 1))
    /\ filtered[b + 1][2] # NoInfo
    /\ TrackKey(filtered[b + 1][2]) = Walk(filtered, b).last_track_key

\* C5 as claimed: when the same track resumes after a stretch of unmatched samples,
\* the output holds no entry for the stretch or the resumption, not even later.
C5_Original ==
    Done =>
        LET filtered == filtered_results(raw_results)
        IN \A a, b \in DOMAIN raw_results :
              Resumption(filtered, a, b) =>
                  \A m \in DOMAIN deduped :
                      ~(Ts(a) <= deduped[m][1] /\ deduped[m][1] <= Ts(b + 1))

\* C5 (amended): when the same track resumes after a stretch of unmatched samples,
\* nothing is emitted during the stretch or at the resumption and the track gets no
\* second entry there; the gap stays pending, and one unidentified entry at the
\* pending timestamp (the first unmatched sample since the track's entry) is in the
\* final output, emitted before the next different track or as the trailing entry.
C5_ResumptionKeepsGapPending ==
    Done =>
        LET filtered == filtered_results(raw_results)
        IN \A a, b \in DOMAIN raw_results :
              Resumption(filtered, a, b) =>
                  LET walk_before == Walk(filtered, a - 1)
                      walk_after == Walk(filtered, b + 1)
                  IN /\ walk_after.tracklist = walk_before.tracklist
                     /\ walk_after.last_track_key = walk_before.last_track_key
                     /\ walk_after.pending_unidentified # NoInt
                     /\ walk_after.pending_unidentified <= Ts(a)
                     /\ \A m \in DOMAIN deduped : deduped[m][1] # Ts(b + 1)
                     /\ Cardinality({m \in DOMAIN deduped :
                                       /\ walk_after.pending_unidentified <= deduped[m][1]
                                       /\ deduped[m][1] <= Ts(b + 1)}) = 1
                     /\ \E m \in DOMAIN deduped :
                           deduped[m] = <<walk_after.pending_unidentified, NoInfo>>

C5_Witness ==
    /\ Done
    /\ raw_results = Stamp(<<InfoA, NoInfo, InfoAUpper, InfoB, InfoB>>)
    /\ deduped = <<<<0, InfoA>>, <<30, NoInfo>>, <<90, InfoB>>>>

\* C6: when one track is matched before and after a stretch of unmatched samples,
\* the track has no entry at the sample where it resumes, and its entry is followed
\* by an unidentified entry no later than the stretch's first sample;
\* [T@0, T@30, none@60, none@90, T@120, T@150] gives exactly T@0, unidentified@60.
C6_SameTrackAroundGap ==
    Done =>
        /\ \A i, k \in DOMAIN raw_results :
              (UnmatchedBetween(i, k) /\ SameKey(i, k)) =>
                  /\ \A m \in DOMAIN deduped : deduped[m][1] # Ts(k)
                  /\ \E m \in DOMAIN deduped :
                        /\ IsOfKey(deduped[m], i)
                        /\ deduped[m][1] <= Ts(i)
                        /\ m + 1 \in DOMAIN deduped
                        /\ ~Identified(deduped[m + 1])
                        /\ deduped[m + 1][1] <= Ts(i + 1)
        /\ raw_results = Stamp(<<InfoA, InfoA, NoInfo, NoInfo, InfoA, InfoA>>) =>
              deduped = <<<<0, InfoA>>, <<60, NoInfo>>>>

C6_Witness ==
    /\ Done
    /\ raw_results = Stamp(<<InfoA, InfoA, NoInfo, NoInfo, InfoA, InfoA>>)
    /\ Len(deduped) = 2
    /\ ~Identified(deduped[2])

\* C7: the output entries of reconciliation are in strictly ascending timestamp
\* order (the inputs carry slice_audio's strictly increasing timestamps), and so are
\* the tracks of the Tracklist whenever results_to_tracklist returns one.
C7_StrictlyAscending ==
    Done =>
        /\ StrictlyAscending([m \in DOMAIN deduped |-> deduped[m][1]])
        /\ IsTracklist(result) =>
              StrictlyAscending([m \in DOMAIN result.tracks |->
                                    result.tracks[m].timestamp])

C7_Witness ==
    /\ Done
    /\ Len(deduped) >= 4
    /\ \E m \in 2..(Len(deduped) - 1) : ~Identified(deduped[m])
    /\ StrictlyAscending([m \in DOMAIN raw_results |-> Ts(m)])

\* ------------------------------------------------------------------------
\* The correction store: add_correction and lookups

\* the most corrections recorded in one run
MaxStored == 2

\* db.add_correction(original_artist, original_title, corrected_artist, corrected_title)
AddCorrection(oa, ot, ca, ct) ==
    /\ Cardinality(DOMAIN corrections) < MaxStored
    /\ corrections' = add_correction(corrections, oa, ot, ca, ct)
    /\ UNCHANGED <<recon_vars, tracklist, before, applied, other_vars>>

\* originals and corrected pairs given to add_correction: letter case and
\* surrounding whitespace vary, one name has whitespace inside, one is empty, one
\* is the text that separates artist and title in a key
LookupArtists ==
    {<<>>, <<"p">>, <<" ", "P">>, <<"p", " ", "q">>, <<"q">>, <<"|", "|", "|">>}
LookupTitles == {<<>>, <<"t">>, <<"T", " ">>, <<"|", "|", "|">>}
CorrectedPairs == {<<<<"P">>, <<"t">>>>, <<<<"q">>, <<"b">>>>}

LookupInit == ReconIdle /\ StoreInit

LookupNext ==
    \E oa \in LookupArtists, ot \in LookupTitles, c \in CorrectedPairs :
        AddCorrection(oa, ot, c[1], c[2])

SpecLookup == LookupInit /\ [][LookupNext]_vars

\* the names looked up: those recorded, and more variants of them
QueryNames ==
    LookupArtists \cup LookupTitles \cup
    {<<"P">>, <<" ", "p", " ">>, <<" ">>, <<"p", "q">>, <<"T">>}

\* lower-casing and trimming, as the properties speak of it
NormStr(s) == Lower(Strip(s))

SameNormalized(a, t, oa, ot) == NormStr(a) = NormStr(oa) /\ NormStr(t) = NormStr(ot)

\* the normalized form of a pair: both fields lower-cased and trimmed, joined by |||
NormForm(a, t) == NormStr(a) \o <<"|", "|", "|">> \o NormStr(t)

\* C9: for every recorded correction (oa, ot) -> (ca, ct), get_correction(a, t)
\* returns (ca, ct) for every (a, t) that equals (oa, ot) after lower-casing and
\* trimming both fields; it returns None for every (a, t) whose normalized form is
\* that of no recorded original pair.
C9_LookupNormalized ==
    \A a, t \in QueryNames :
        /\ \A k \in DOMAIN corrections :
              SameNormalized(a, t, corrections[k].original_artist,
                             corrections[k].original_title) =>
                  get_correction(corrections, a, t) =
                      <<corrections[k].artist, corrections[k].title>>
        /\ (\A k \in DOMAIN corrections :
               NormForm(a, t) # NormForm(corrections[k].original_artist,
                                         corrections[k].original_title)) =>
              get_correction(corrections, a, t) = None

C9_Witness ==
    /\ Cardinality(DOMAIN corrections) = 2
    /\ \E k \in DOMAIN corrections :
          /\ corrections[k].original_artist = <<" ", "P">>
          /\ corrections[k].original_title = <<"T", " ">>
          /\ get_correction(corrections, <<"p", " ">>, <<" ", "t">>) =
                <<corrections[k].artist, corrections[k].title>>
    /\ get_correction(corrections, <<"p", "q">>, <<"t">>) = None
    /\ get_correction(corrections, <<"p", " ", "q">>, <<"t">>) # None

\* ------------------------------------------------------------------------
\* The correction store applied to a tracklist

\* the most tracks of a tracklist given to apply_corrections
MaxTracks == 2

StoreArtists == {<<>>, <<"p">>, <<" ", "P">>}
StoreTitles == {<<>>, <<"t">>}

\* a track as results_to_tracklist or a test builds it: no original values
PlainTrack(timestamp, artist, title) ==
    Track([timestamp |-> timestamp, artist |-> artist, title |-> title])

\* a track as parse_markdown_tracklist builds it: the original values are the
\* parsed ones
ParsedTrack(timestamp, artist, title) ==
    Track([timestamp |-> timestamp, artist |-> artist, title |-> title,
           original_artist |-> artist, original_title |-> title])

\* the tracks a tracklist may hold at position i: unidentified, with an empty
\* artist only, and one track under two spellings, built either way
TracksAt(i) ==
    LET timestamp == SampleSeconds * (i - 1)
    IN {PlainTrack(timestamp, <<>>, <<>>), PlainTrack(timestamp, <<>>, <<"t">>),
        PlainTrack(timestamp, <<"p">>, <<"t">>), PlainTrack(timestamp, <<"P">>, <<"t">>),
        ParsedTrack(timestamp, <<"p">>, <<"t">>),
        ParsedTrack(timestamp, <<"P">>, <<"t">>)}

TrackInputs ==
    UNION {{tl \in [1..n -> UNION {TracksAt(i) : i \in 1..n}] :
               \A i \in 1..n : tl[i] \in TracksAt(i)} : n \in 0..MaxTracks}

\* applied = db.apply_corrections(tracklist)
ApplyCorrections(tl) ==
    LET r == apply_corrections(corrections, tl)
    IN /\ before' = tl
       /\ tracklist' = r.tracks
       /\ applied' = r.applied
       /\ UNCHANGED <<recon_vars, corrections, other_vars>>

\* the first call, on a tracklist just built or parsed
ApplyFirst(tl) ==
    /\ applied = NoInt
    /\ ApplyCorrections(tl)

\* a later call on the same tracklist
ApplyAgain ==
    /\ applied # NoInt
    /\ ApplyCorrections(tracklist)

StoreSpecInit == ReconIdle /\ StoreInit

StoreNext ==
    \/ \E oa \in StoreArtists, ot \in StoreTitles, c \in CorrectedPairs :
          AddCorrection(oa, ot, c[1], c[2])
    \/ \E tl \in TrackInputs : ApplyFirst(tl)
    \/ ApplyAgain

SpecStore == StoreSpecInit /\ [][StoreNext]_vars

Changed(i) ==
    \/ tracklist[i].artist # before[i].artist
    \/ tracklist[i].title # before[i].title

\* C10 as claimed: the count is the number of tracks whose artist or title differs
\* after the call, and each of them has its original fields set to the old values.
C10_Original ==
    applied # NoInt =>
        /\ applied = Cardinality({i \in DOMAIN before : Changed(i)})
        /\ \A i \in DOMAIN before :
              Changed(i) =>
                  /\ tracklist[i].original_artist = before[i].artist
                  /\ tracklist[i].original_title = before[i].title

\* the tracks of bef, not unidentified, for which corr records a correction
Hits(corr, bef) ==
    {i \in DOMAIN bef :
        /\ ~(bef[i].artist = <<>> /\ bef[i].title = <<>>)
        /\ \E k \in DOMAIN corr :
              SameNormalized(bef[i].artist, bef[i].title,
                             corr[k].original_artist, corr[k].original_title)}

ApplyPost(corr, bef, aft, n) ==
    /\ DOMAIN aft = DOMAIN bef
    /\ n = Cardinality(Hits(corr, bef))
    /\ \A i \in DOMAIN bef :
          IF i \in Hits(corr, bef)
          THEN /\ aft[i].original_artist = bef[i].artist
               /\ aft[i].original_title = bef[i].title
               /\ <<aft[i].artist, aft[i].title>> =
                     get_correction(corr, bef[i].artist, bef[i].title)
          ELSE aft[i] = bef[i]

\* C10 (amended): apply_corrections returns the number of corrections it applied:
\* one for each track that is not unidentified and whose (artist, title), lower-cased
\* and trimmed, has a recorded correction, also when that correction equals the
\* track's artist and title and leaves them as they were; each such track gets the
\* corrected pair and has original_artist/original_title set to its values before
\* the call; every other track is left as it was and is not counted.
C10_CountsAppliedCorrections ==
    [][(/\ corrections' = corrections
        /\ <<tracklist', before', applied'>> # <<tracklist, before, applied>>) =>
          ApplyPost(corrections, before', tracklist', applied')]_vars

C10_Witness ==
    /\ applied = 2
    /\ Len(before) = 2
    /\ Changed(1)
    /\ tracklist[1].original_artist = before[1].artist
    /\ ~Changed(2)
    /\ before[2].original_artist = None
    /\ tracklist[2].original_artist = before[2].artist

\* artist and title both empty
BothEmpty(track) == track.artist = <<>> /\ track.title = <<>>

\* C11: apply_corrections leaves every unidentified track (artist and title both
\* empty) exactly as it was, original fields included, and does not count it,
\* whatever the store holds, a correction under the ("", "") key included.
C11_UnidentifiedUntouched ==
    applied # NoInt =>
        /\ \A i \in DOMAIN before : BothEmpty(before[i]) => tracklist[i] = before[i]
        /\ applied <= Cardinality({i \in DOMAIN before : ~BothEmpty(before[i])})

C11_Witness ==
    /\ applied = 1
    /\ Len(before) = 2
    /\ BothEmpty(before[1])
    /\ tracklist[1] = before[1]
    /\ Changed(2)
    /\ \E k \in DOMAIN corrections :
          corrections[k].original_artist = <<>> /\ corrections[k].original_title = <<>>
    /\ tracklist = apply_corrections(corrections, before).tracks

\* ------------------------------------------------------------------------
\* results_to_tracklist with a correction store

\* the most samples of a recording reconciled with corrections
MaxRaw == 3

ResultsArtists == {<<"p">>, <<" ", "Q">>}
ResultsTitles == {<<"t">>}

CorrectedInputs ==
    {Stamp(infos) :
        infos \in UNION {[1..n -> {InfoA, InfoB, InfoC, NoInfo}] : n \in 0..MaxRaw}}

\* tracklist = results_to_tracklist(raw, name, corrections_db); deduped is its local
ResultsWithCorrections(raw) ==
    /\ pc = "start"
    /\ raw_results' = raw
    /\ deduped' =
          deduplicate_tracklist(corrected_results(raw, [corrections |-> corrections]))
    /\ result' = ConvertToTracks(deduped', SourceName)
    /\ pc' = "done"
    /\ UNCHANGED <<store_vars, other_vars>>

ResultsInit == ReconIdle /\ StoreInit

ResultsNext ==
    \/ /\ pc = "start"
       /\ \E oa \in ResultsArtists, ot \in ResultsTitles, c \in CorrectedPairs :
             AddCorrection(oa, ot, c[1], c[2])
    \/ \E raw \in CorrectedInputs : ResultsWithCorrections(raw)

SpecResults == ResultsInit /\ [][ResultsNext]_vars

CorrectionFor(i) ==
    get_correction(corrections, raw_results[i][2].artist, raw_results[i][2].title)

\* samples i < j are the only matched ones, have different raw keys, and the store
\* maps both to one corrected pair
TwoSingletonsMerged(i, j) ==
    /\ i < j
    /\ Matched(i)
    /\ Matched(j)
    /\ ~SameKey(i, j)
    /\ \A n \in DOMAIN raw_results \ {i, j} : ~Matched(n)
    /\ CorrectionFor(i) # None
    /\ CorrectionFor(i) = CorrectionFor(j)

\* C8: two samples with different raw keys, each occurring once, that the store maps
\* to the same corrected (artist, title) yield an identified Track with the corrected
\* artist and title at the first of the two timestamps.
C8_CorrectionsMergeSingletons ==
    Done =>
        \A i, j \in DOMAIN raw_results :
            TwoSingletonsMerged(i, j) =>
                /\ IsTracklist(result)
                /\ \E m \in DOMAIN result.tracks :
                      /\ result.tracks[m].timestamp = Ts(i)
                      /\ result.tracks[m].artist = CorrectionFor(i)[1]
                      /\ result.tracks[m].title = CorrectionFor(i)[2]

\* what holds in its place: the corrected samples are merged in deduped, before the
\* conversion to Track objects, which raises
C8_MergedBeforeConversion ==
    Done =>
        \A i, j \in DOMAIN raw_results :
            TwoSingletonsMerged(i, j) =>
                /\ result = TypeError
                /\ \E m \in DOMAIN deduped :
                      /\ deduped[m][1] = Ts(i)
                      /\ deduped[m][2].artist = CorrectionFor(i)[1]
                      /\ deduped[m][2].title = CorrectionFor(i)[2]
                      /\ deduped[m][2].original_artist = raw_results[i][2].artist

\* ------------------------------------------------------------------------
\* CorrectionsDB.__init__ and _load on the file at db_path

\* a file that json.load does not parse (JSONDecodeError)
Garbage ==
    [exists |-> TRUE, parses |-> FALSE, kind |-> "none", has_corrections |-> FALSE,
     corrections_kind |-> "none", corrections |-> <<>>]

\* a file whose bytes are not UTF-8: open(...) in text mode gives a file that
\* json.load cannot read (UnicodeDecodeError, a ValueError)
Undecodable ==
    [exists |-> TRUE, parses |-> FALSE, kind |-> "bytes", has_corrections |-> FALSE,
     corrections_kind |-> "none", corrections |-> <<>>]

\* a file holding a JSON value of the given kind that is no object
JsonValue(kind) ==
    [exists |-> TRUE, parses |-> TRUE, kind |-> kind, has_corrections |-> FALSE,
     corrections_kind |-> "none", corrections |-> <<>>]

\* a file holding a JSON object without the key "corrections"
JsonObjectWithoutKey ==
    [exists |-> TRUE, parses |-> TRUE, kind |-> "object", has_corrections |-> FALSE,
     corrections_kind |-> "none", corrections |-> <<>>]

\* a file holding {"corrections": v} for a JSON value v of the given kind, no object:
\* null or a number
JsonCorrectionsOf(kind) ==
    [exists |-> TRUE, parses |-> TRUE, kind |-> "object", has_corrections |-> TRUE,
     corrections_kind |-> kind, corrections |-> <<>>]

\* a file holding {"corrections": v} for an array v of strings (its elements) or
\* a string v (held as the one string of a tuple)
JsonCorrectionsHolding(kind, v) ==
    [exists |-> TRUE, parses |-> TRUE, kind |-> "object", has_corrections |-> TRUE,
     corrections_kind |-> kind, corrections |-> v]

\* the file save() writes: json.dump({"corrections": self.corrections}, f, indent=2)
SavedStore(corr) ==
    [exists |-> TRUE, parses |-> TRUE, kind |-> "object", has_corrections |-> TRUE,
     corrections_kind |-> "object", corrections |-> corr]

\* type(v) for a JSON value v of the given kind, as json.load builds it
PyType(kind) ==
    CASE kind = "object" -> "dict"
      [] kind = "array" -> "list"
      [] kind = "null" -> "NoneType"
      [] kind = "string" -> "str"
      [] kind = "number" -> "int"

\* __init__ (self.corrections = {}) and _load: what escapes, and self.corrections
load(file) ==
    CASE ~file.exists ->
            [raised |-> "none", type |-> "dict", corrections |-> <<>>]
      [] file.exists /\ ~file.parses /\ file.kind = "bytes" ->
            \* UnicodeDecodeError is neither json.JSONDecodeError nor IOError
            [raised |-> "UnicodeDecodeError", type |-> "dict", corrections |-> <<>>]
      [] file.exists /\ ~file.parses /\ file.kind # "bytes" ->
            \* json.JSONDecodeError is caught
            [raised |-> "none", type |-> "dict", corrections |-> <<>>]
      [] file.exists /\ file.parses /\ file.kind # "object" ->
            \* data.get: only dict has it, and AttributeError is not caught
            [raised |-> "AttributeError", type |-> "dict", corrections |-> <<>>]
      [] file.exists /\ file.parses /\ file.kind = "object" /\ ~file.has_corrections ->
            [raised |-> "none", type |-> "dict", corrections |-> <<>>]
      [] OTHER ->
            [raised |-> "none", type |-> PyType(file.corrections_kind),
             corrections |-> file.corrections]

\* the files found at db_path that the program did not write
ForeignFiles ==
    {NoFile, Garbage, Undecodable, JsonObjectWithoutKey} \cup
    {JsonValue(k) : k \in {"array", "null", "string", "number"}} \cup
    {JsonCorrectionsOf(k) : k \in {"null", "number"}} \cup
    {JsonCorrectionsHolding("string", <<v>>) :
        v \in {<<"s">>, <<"x">> \o make_key(<<"p">>, <<"t">>) \o <<"x">>}} \cup
    {JsonCorrectionsHolding("array", v) : v \in {<<>>, <<make_key(<<"p">>, <<"t">>)>>}}

\* something other than the program leaves a file at db_path
FoundFile(file) ==
    /\ db_pc = "new"
    /\ db_file' = file
    /\ UNCHANGED <<recon_vars, store_vars, db_pc, db_raised, corrections_type,
                   after_load_vars>>

\* db = CorrectionsDB(db_path)
Construct ==
    /\ db_pc = "new"
    /\ LET r == load(db_file)
       IN /\ db_raised' = r.raised
          /\ corrections_type' = r.type
          /\ corrections' = r.corrections
    /\ db_pc' = "loaded"
    /\ UNCHANGED <<recon_vars, tracklist, before, applied, db_file, after_load_vars>>

\* db.add_correction(...) on the constructed store: self.corrections[key] = {...}
\* raises TypeError unless self.corrections is a dict
AddAfterLoad(oa, ot, ca, ct) ==
    /\ db_pc \in {"loaded", "used"}
    /\ db_raised = "none"
    /\ Cardinality(DOMAIN corrections) < MaxStored
    /\ IF corrections_type = "dict"
       THEN /\ corrections' = add_correction(corrections, oa, ot, ca, ct)
            /\ UNCHANGED db_raised
       ELSE /\ db_raised' = "TypeError"
            /\ UNCHANGED corrections
    /\ db_pc' = "used"
    /\ UNCHANGED <<recon_vars, tracklist, before, applied, db_file, corrections_type,
                   after_load_vars>>

\* `key in self.corrections' for the types json.load builds: a key of the dict, a
\* substring of the str, an element of the list
KeyIn(key, corr, type) ==
    CASE type = "dict" -> key \in DOMAIN corr
      [] type = "str" -> Contains(key, corr[1])
      [] type = "list" -> \E i \in DOMAIN corr : corr[i] = key

\* what get_correction(artist, title) raises on the constructed store: `key in
\* self.corrections' raises TypeError on None and on a number, and
\* `self.corrections[key]' raises it on a str or a list that holds the key
get_correction_raises(corr, type, artist, title) ==
    IF type \in {"NoneType", "int"} THEN "TypeError"
    ELSE IF type # "dict" /\ KeyIn(make_key(artist, title), corr, type) THEN "TypeError"
    ELSE "none"

\* db.get_correction(artist, title) on the constructed store
LookupAfterLoad(artist, title) ==
    /\ db_pc = "loaded"
    /\ db_raised = "none"
    /\ db_raised' = get_correction_raises(corrections, corrections_type, artist, title)
    /\ db_pc' = "used"
    /\ UNCHANGED <<recon_vars, store_vars, db_file, corrections_type, after_load_vars>>

\* db.save(), on a store that was constructed, whether or not it has been used:
\* json.dump({"corrections": self.corrections}, f, indent=2) writes
\* self.corrections whatever its type is
Save ==
    /\ db_pc \in {"loaded", "used"}
    /\ db_raised = "none"
    /\ db_file' = JsonCorrectionsHolding(
                      CHOOSE kind \in {"object", "array", "null", "string", "number"} :
                          PyType(kind) = corrections_type,
                      corrections)
    /\ UNCHANGED <<recon_vars, store_vars, db_pc, db_raised, corrections_type,
                   after_load_vars>>

\* the process ends; the next one starts without a CorrectionsDB
Exit ==
    /\ db_pc \in {"loaded", "used"}
    /\ db_pc' = "new"
    /\ db_raised' = "none"
    /\ corrections_type' = "dict"
    /\ corrections' = <<>>
    /\ UNCHANGED <<recon_vars, tracklist, before, applied, db_file, after_load_vars>>

LoadInit ==
    /\ ReconIdle
    /\ StoreIdle
    /\ RunIdle
    /\ RetryIdle
    /\ BatchIdle
    /\ MarkdownIdle
    /\ PlayIdle
    /\ db_file = NoFile
    /\ db_pc = "new"
    /\ db_raised = "none"
    /\ corrections_type = "dict"

LoadNext ==
    \/ \E file \in ForeignFiles : FoundFile(file)
    \/ Construct
    \/ \E oa \in StoreArtists, ot \in StoreTitles, c \in CorrectedPairs :
          AddAfterLoad(oa, ot, c[1], c[2])
    \/ \E artist \in StoreArtists, title \in StoreTitles : LookupAfterLoad(artist, title)
    \/ Save
    \/ Exit

SpecLoad == LoadInit /\ [][LoadNext]_vars

\* the file is a correction store as save() writes it
IsStoreFile(file) ==
    /\ file.exists
    /\ file.parses
    /\ file.kind = "object"
    /\ file.has_corrections
    /\ file.corrections_kind = "object"

\* C12: constructing a CorrectionsDB never raises because of the file's content,
\* and for a file that is absent, not parseable JSON, or JSON other than a
\* correction store the constructed store is an empty dict, on which add_correction
\* and get_correction raise nothing.
C12_LoadNeverFatal ==
    /\ db_raised = "none"
    /\ (db_pc = "loaded" /\ ~IsStoreFile(db_file)) =>
          (corrections_type = "dict" /\ corrections = <<>>)

\* what does hold: a file that is absent, text that is not JSON, or a JSON object without
\* the key "corrections" gives an empty dict, and a store the program saved is read
\* back as it was
C12_AbsentOrUnparseableGivesEmpty ==
    db_pc = "loaded" =>
        /\ (~db_file.exists \/ (~db_file.parses /\ db_file.kind # "bytes") \/
            (db_file.kind = "object" /\ ~db_file.has_corrections)) =>
              (db_raised = "none" /\ corrections_type = "dict" /\ corrections = <<>>)
        /\ IsStoreFile(db_file) =>
              (db_raised = "none" /\ corrections_type = "dict"
               /\ corrections = db_file.corrections)

\* ------------------------------------------------------------------------
\* process_single_file on one recording, interrupted and started again

\* the most samples of the recording
MaxRunSamples == 3

\* the most times process_single_file is started on the recording
MaxRuns == 3

\* the variables process_single_file leaves alone
beside_run_vars == <<store_vars, load_vars, after_run_vars>>

\* total_slices = len(slices)
total_slices == Len(answers)

\* save_progress(results, filepath): the file afterwards.  JSON turns each
\* (timestamp, track_info) tuple into a two-element list, which the loops over
\* raw_results unpack alike; ints, strs, None and dicts with str keys come back equal
save_progress(results) == [exists |-> TRUE, complete |-> TRUE, results |-> results]

\* the file between the two statements of save_progress: open(filepath, "w") has
\* emptied it and json.dump has not written it, so it holds no JSON
Truncated == [exists |-> TRUE, complete |-> FALSE, results |-> <<>>]

\* the file at output_path between open(output_path, "w") and f.write(markdown)
TruncatedOutput == [written |-> TRUE, tracklist |-> NotCalled]

\* whether load_progress(filepath) raises: json.load on a file that holds no JSON
\* raises json.JSONDecodeError
load_progress_raises(file) == file.exists /\ ~file.complete

\* (variant: an existing snapshot is read without its last entry)
load_progress_dropping_last(file) ==
    IF file.exists /\ file.results # <<>>
    THEN SubSeq(file.results, 1, Len(file.results) - 1)
    ELSE <<>>

\* load_progress(filepath)
load_progress(file) == IF file.exists THEN file.results ELSE <<>>

Running ==
    {"load", "check", "loop", "append", "save", "sleep", "convert", "write", "cleanup",
     "return"}

\* process_single_file(audio_path, output_dir, delay_seconds, resume, corrections_db)
\* is called
StartRun(r) ==
    /\ run_pc \notin Running
    /\ runs < MaxRuns
    /\ runs' = runs + 1
    /\ resume' = r
    /\ run_pc' = "load"
    /\ raw_results' = <<>>
    /\ deduped' = <<>>
    /\ result' = NotCalled
    /\ pc' = "start"
    /\ idx' = 0
    /\ start_index' = 0
    /\ sample_info' = NoInfo
    /\ calls' = <<>>
    /\ sleeps' = <<>>
    /\ UNCHANGED <<answers, audio_ok, progress, output, beside_run_vars>>

\* audio = load_audio(audio_path), or `return None' when it raises
LoadAudio ==
    /\ run_pc = "load"
    /\ run_pc' = IF audio_ok THEN "check" ELSE "failed"
    /\ UNCHANGED <<recon_vars, answers, audio_ok, resume, idx, start_index, sample_info,
                   progress, output, calls, sleeps, runs,
                   beside_run_vars>>

\* "Check for existing progress", and the loop's first index; a JSONDecodeError
\* that load_progress raises leaves process_single_file
CheckProgress ==
    /\ run_pc = "check"
    /\ IF resume /\ progress.exists /\ load_progress_raises(progress)
       THEN /\ raw_results' = <<>>
            /\ start_index' = 0
            /\ idx' = idx
            /\ run_pc' = "decode_error"
       ELSE /\ IF resume /\ progress.exists
               THEN /\ raw_results' = load_progress(progress)
                    /\ start_index' = Len(raw_results')
               ELSE /\ raw_results' = <<>>
                    /\ start_index' = 0
            /\ idx' = start_index' + 1
            /\ run_pc' = "loop"
    /\ UNCHANGED <<deduped, result, pc, answers, audio_ok, resume, sample_info, progress,
                   output, calls, sleeps, runs,
                   beside_run_vars>>

\* track_info = await identify_sample_with_retry(shazam, segment, temp_dir)
Identify ==
    /\ run_pc = "loop"
    /\ idx <= total_slices
    /\ calls' = Append(calls, idx)
    /\ sample_info' = answers[idx]
    /\ run_pc' = "append"
    /\ UNCHANGED <<recon_vars, answers, audio_ok, resume, idx, start_index, progress,
                   output, sleeps, runs, beside_run_vars>>

\* slices[start_index:] is exhausted
LoopDone ==
    /\ run_pc = "loop"
    /\ idx > total_slices
    /\ run_pc' = "convert"
    /\ UNCHANGED <<recon_vars, answers, audio_ok, resume, idx, start_index, sample_info,
                   progress, output, calls, sleeps, runs,
                   beside_run_vars>>

\* raw_results.append((timestamp, track_info))
AppendResult ==
    /\ run_pc = "append"
    /\ raw_results' = Append(raw_results, <<SampleSeconds * (idx - 1), sample_info>>)
    /\ run_pc' = "save"
    /\ UNCHANGED <<deduped, result, pc, answers, audio_ok, resume, idx, start_index,
                   sample_info, progress, output, calls, sleeps, runs,
                   beside_run_vars>>

\* (variant: only the results of this run are written)
SaveProgressNewOnly ==
    /\ run_pc = "save"
    /\ progress' = save_progress(SubSeq(raw_results, start_index + 1, Len(raw_results)))
    /\ run_pc' = IF idx < total_slices THEN "sleep" ELSE "loop"
    /\ idx' = IF idx < total_slices THEN idx ELSE idx + 1
    /\ UNCHANGED <<recon_vars, answers, audio_ok, resume, start_index, sample_info,
                   output, calls, sleeps, runs,
                   beside_run_vars>>

\* (variant: the delay is made after the last sample as well)
SaveProgressAlwaysSleeps ==
    /\ run_pc = "save"
    /\ progress' = save_progress(raw_results)
    /\ run_pc' = "sleep"
    /\ UNCHANGED <<recon_vars, answers, audio_ok, resume, idx, start_index, sample_info,
                   output, calls, sleeps, runs, beside_run_vars>>

\* save_progress(raw_results, progress_path); the last sample is not followed by a
\* delay
SaveProgress ==
    /\ run_pc = "save"
    /\ progress' = save_progress(raw_results)
    /\ run_pc' = IF idx < total_slices THEN "sleep" ELSE "loop"
    /\ idx' = IF idx < total_slices THEN idx ELSE idx + 1
    /\ UNCHANGED <<recon_vars, answers, audio_ok, resume, start_index, sample_info,
                   output, calls, sleeps, runs,
                   beside_run_vars>>

\* await asyncio.sleep(delay_seconds)
Sleep ==
    /\ run_pc = "sleep"
    /\ sleeps' = Append(sleeps, idx)
    /\ idx' = idx + 1
    /\ run_pc' = "loop"
    /\ UNCHANGED <<recon_vars, answers, audio_ok, resume, start_index, sample_info,
                   progress, output, calls, runs,
                   beside_run_vars>>

\* tracklist = results_to_tracklist(raw_results, audio_path.name, corrections_db);
\* a TypeError it raises leaves process_single_file
Convert ==
    /\ run_pc = "convert"
    /\ deduped' =
          deduplicate_tracklist(corrected_results(raw_results,
                                                  [corrections |-> corrections]))
    /\ result' = ConvertToTracks(deduped', SourceName)
    /\ pc' = "done"
    /\ run_pc' = IF result' = TypeError THEN "raised" ELSE "write"
    /\ UNCHANGED <<raw_results, answers, audio_ok, resume, idx, start_index, sample_info,
                   progress, output, calls, sleeps, runs,
                   beside_run_vars>>

\* markdown = tracklist.to_markdown(); f.write(markdown)
WriteOutput ==
    /\ run_pc = "write"
    /\ output' = [written |-> TRUE, tracklist |-> result]
    /\ run_pc' = "cleanup"
    /\ UNCHANGED <<recon_vars, answers, audio_ok, resume, idx, start_index, sample_info,
                   progress, calls, sleeps, runs,
                   beside_run_vars>>

\* (variant: the progress file is left in place)
CleanupKeeping ==
    /\ run_pc = "cleanup"
    /\ run_pc' = "return"
    /\ UNCHANGED <<recon_vars, answers, audio_ok, resume, idx, start_index, sample_info,
                   progress, output, calls, sleeps, runs,
                   beside_run_vars>>

\* "Clean up progress file": if progress_path.exists(): progress_path.unlink()
Cleanup ==
    /\ run_pc = "cleanup"
    /\ progress' = IF progress.exists THEN NoSnapshot ELSE progress
    /\ run_pc' = "return"
    /\ UNCHANGED <<recon_vars, answers, audio_ok, resume, idx, start_index, sample_info,
                   output, calls, sleeps, runs,
                   beside_run_vars>>

\* return tracklist, output_path
Return ==
    /\ run_pc = "return"
    /\ run_pc' = "returned"
    /\ UNCHANGED <<recon_vars, answers, audio_ok, resume, idx, start_index, sample_info,
                   progress, output, calls, sleeps, runs,
                   beside_run_vars>>

\* the process is interrupted between two statements, those of save_progress and
\* of the writing of the output included, and the point between the deletion of
\* the progress file and the return; its memory is gone, the files stay
Kill ==
    /\ run_pc \in Running
    /\ run_pc' = "killed"
    /\ progress' \in (IF run_pc = "save" THEN {progress, Truncated} ELSE {progress})
    /\ output' \in (IF run_pc = "write" THEN {output, TruncatedOutput} ELSE {output})
    /\ UNCHANGED <<recon_vars, answers, audio_ok, resume, idx, start_index, sample_info,
                   calls, sleeps, runs, beside_run_vars>>

\* what recognition gives for the samples of the recording
RunAnswers == UNION {[1..n -> {InfoA, InfoB, NoInfo}] : n \in 0..MaxRunSamples}

RunInit ==
    /\ ReconIdle
    /\ StoreIdle
    /\ LoadIdle
    /\ RetryIdle
    /\ BatchIdle
    /\ MarkdownIdle
    /\ PlayIdle
    /\ answers \in RunAnswers
    /\ audio_ok \in BOOLEAN
    /\ resume = TRUE
    /\ run_pc = "idle"
    /\ idx = 0
    /\ start_index = 0
    /\ sample_info = NoInfo
    /\ progress = NoSnapshot
    /\ output = NoOutput
    /\ calls = <<>>
    /\ sleeps = <<>>
    /\ runs = 0

RunNext ==
    \/ \E r \in BOOLEAN : StartRun(r)
    \/ LoadAudio
    \/ CheckProgress
    \/ Identify
    \/ LoopDone
    \/ AppendResult
    \/ SaveProgress
    \/ Sleep
    \/ Convert
    \/ WriteOutput
    \/ Cleanup
    \/ Return
    \/ Kill

SpecRun == RunInit /\ [][RunNext]_vars

\* what one call of results_to_tracklist on all the samples' results gives
Uninterrupted ==
    results_to_tracklist(Stamp(answers), SourceName, [corrections |-> corrections])

\* the sample numbers first..last in order
SamplesFrom(first, last) == [j \in 1..(last - first + 1) |-> first + j - 1]

\* C13: with resume enabled and a progress snapshot of k results, the run takes the
\* snapshot as its first k results, calls recognition only for samples k+1..N, in
\* order, and what results_to_tracklist then gives (the Tracklist, or the TypeError
\* it raises) is what it gives for the N recognition results of a run that was
\* never interrupted.
C13_ResumeEquivalent ==
    [][/\ (run_pc = "check" /\ run_pc' = "loop" /\ resume /\ progress.exists) =>
             /\ start_index' = Len(progress.results)
             /\ raw_results' = progress.results
       /\ calls' = SamplesFrom(start_index' + 1, start_index' + Len(calls'))
       /\ (run_pc = "convert" /\ run_pc' \in {"write", "raised"}) =>
             /\ calls' = SamplesFrom(start_index' + 1, total_slices)
             /\ raw_results' = Stamp(answers)
             /\ result' = Uninterrupted]_vars

\* a run resumed from a snapshot of two results of three has called recognition
\* for sample 3 alone, which was identified, and has returned the Tracklist the
\* uninterrupted run produces
C13_Witness ==
    /\ resume
    /\ run_pc = "returned"
    /\ total_slices = 3
    /\ start_index = 2
    /\ calls = <<3>>
    /\ answers[1] # NoInfo /\ answers[3] # NoInfo
    /\ result # TypeError
    /\ result = Uninterrupted

\* the run stands between two samples: a result was saved or resumed, and the next
\* recognition call has not been made
BetweenSamples ==
    \/ run_pc = "sleep"
    \/ run_pc = "loop" /\ (calls # <<>> \/ start_index > 0)

IsPrefix(s, t) == Len(s) <= Len(t) /\ s = SubSeq(t, 1, Len(s))

\* C14: whenever the run is between samples, the progress file holds exactly the
\* in-memory result list, whose length is the number of samples completed so far
\* (resumed ones included) and which is a prefix of the final raw result sequence.
C14_SnapshotTracksMemory ==
    BetweenSamples =>
        /\ progress.exists
        /\ progress.results = raw_results
        /\ Len(progress.results) = start_index + Len(calls)
        /\ IsPrefix(progress.results, Stamp(answers))

C14_Witness ==
    /\ run_pc = "sleep"
    /\ total_slices = 3
    /\ start_index = 1
    /\ calls = <<2>>
    /\ progress.results = Stamp(SubSeq(answers, 1, 2))

\* C15: the progress file is deleted only by the clean-up step, which follows the
\* writing of the reconciled tracklist to the output file and is followed by
\* nothing but the return, and when process_single_file has returned its tracklist
\* the progress file does not exist and the output file holds the tracklist.
C15_SnapshotDeletedLast ==
    [][/\ (progress.exists /\ ~progress'.exists) =>
             /\ run_pc = "cleanup"
             /\ run_pc' = "return"
             /\ output.written
             /\ output.tracklist = result
       /\ run_pc' \in {"return", "returned"} =>
             /\ ~progress'.exists
             /\ output' = [written |-> TRUE, tracklist |-> result']
       /\ run_pc' = "returned" => run_pc \in {"return", "returned"}]_vars

C15_Witness ==
    /\ run_pc = "returned"
    /\ Len(raw_results) = 3
    /\ start_index = 1
    /\ ~progress.exists
    /\ output = [written |-> TRUE, tracklist |-> result]

\* ------------------------------------------------------------------------
\* identify_sample_with_retry

MAX_RETRIES == 5
INITIAL_BACKOFF == 30

\* the variables identify_sample_with_retry leaves alone
beside_retry_vars == <<recon_vars, store_vars, load_vars, run_vars, after_retry_vars>>

\* (variant: every error counts as a rate limit)
is_rate_limit_any(e) == TRUE

\* error_str = str(e).lower();
\* "429" in error_str or "too many" in error_str or "rate" in error_str
is_rate_limit(e) ==
    LET error_str == Lower(e)
    IN \/ Contains(<<"4", "2", "9">>, error_str)
       \/ Contains(<<"t", "o", "o", " ", "m", "a", "n", "y">>, error_str)
       \/ Contains(<<"r", "a", "t", "e">>, error_str)

\* (variant: the last attempt is followed by a wait as well)
may_retry_always(a, max_retries) == a < max_retries

\* if attempt < max_retries - 1
may_retry(a, max_retries) == a < max_retries - 1

\* str(e) of the exceptions shazam.recognize raises
ErrorTexts ==
    {<<"4", "2", "9">>, <<"T", "o", "o", " ", "m", "a", "n", "y">>, <<"r", "a", "T", "e">>, <<"H", "T", "T", "P", " ", "4", "2", "9", " ", "T", "o", "o", " ", "m", "a", "n", "y">>,
     <<>>, <<"T", "i", "m", "e", "o", "u", "t">>, <<"r", "a", " ", "t", "e">>, <<"4", "2", " ", "9">>}

\* what one shazam.recognize call gives: a result with a track, a result without
\* one, or an exception
Outcomes ==
    {[kind |-> "track", text |-> <<>>], [kind |-> "nomatch", text |-> <<>>]} \cup
    {[kind |-> "error", text |-> e] : e \in ErrorTexts}

\* identify_sample_with_retry(shazam, segment, temp_dir) is called
CallIdentify ==
    /\ retry_pc \in {"idle", "returned"}
    /\ retry_pc' = "try"
    /\ attempt' = 0
    /\ backoff' = INITIAL_BACKOFF
    /\ waits' = <<>>
    /\ attempts_made' = 0
    /\ last_outcome' = NoOutcome
    /\ retry_result' = NoInfo
    /\ UNCHANGED beside_retry_vars

\* one pass through the try block: result = await shazam.recognize(temp_path), the
\* return of the track's dict or of None, and the except clause up to its decision
Recognize(outcome) ==
    /\ retry_pc = "try"
    /\ attempts_made' = attempts_made + 1
    /\ last_outcome' = outcome
    /\ CASE outcome.kind = "track" ->
               retry_pc' = "returned" /\ retry_result' = InfoA
         [] outcome.kind = "nomatch" ->
               retry_pc' = "returned" /\ retry_result' = NoInfo
         [] OTHER ->
               IF is_rate_limit(outcome.text) /\ may_retry(attempt, MAX_RETRIES)
               THEN retry_pc' = "wait" /\ UNCHANGED retry_result
               ELSE retry_pc' = "returned" /\ retry_result' = NoInfo
    /\ UNCHANGED <<attempt, backoff, waits, beside_retry_vars>>

\* (variant: the backoff is doubled before the sleep instead of after it)
BackoffWaitDoublingFirst(jitter) ==
    /\ retry_pc = "wait"
    /\ backoff' = backoff * 2
    /\ waits' = Append(waits, backoff' + jitter)
    /\ attempt' = attempt + 1
    /\ retry_pc' = IF attempt' < MAX_RETRIES THEN "try" ELSE "returned"
    /\ UNCHANGED <<attempts_made, last_outcome, retry_result, beside_retry_vars>>

\* jitter = random.uniform(0, backoff * 0.1); await asyncio.sleep(backoff + jitter);
\* backoff *= 2; then the loop's next attempt, or the `return None' after the loop
BackoffWait(jitter) ==
    /\ retry_pc = "wait"
    /\ waits' = Append(waits, backoff + jitter)
    /\ backoff' = backoff * 2
    /\ attempt' = attempt + 1
    /\ retry_pc' = IF attempt' < MAX_RETRIES THEN "try" ELSE "returned"
    /\ UNCHANGED <<attempts_made, last_outcome, retry_result, beside_retry_vars>>

\* the jitters drawn: none, and the most
Jitters(b) == {0, b \div 10}

RetryInit ==
    /\ ReconIdle
    /\ StoreIdle
    /\ LoadIdle
    /\ RunIdle
    /\ RetryIdle
    /\ BatchIdle
    /\ MarkdownIdle
    /\ PlayIdle

RetryNext ==
    \/ CallIdentify
    \/ \E outcome \in Outcomes : Recognize(outcome)
    \/ \E jitter \in Jitters(backoff) : BackoffWait(jitter)

SpecRetry == RetryInit /\ [][RetryNext]_vars

\* the error texts that carry a rate-limit signal: "429", "too many" or "rate" in
\* any letter case
RateLimitTexts == {<<"4", "2", "9">>, <<"T", "o", "o", " ", "m", "a", "n", "y">>, <<"r", "a", "T", "e">>, <<"H", "T", "T", "P", " ", "4", "2", "9", " ", "T", "o", "o", " ", "m", "a", "n", "y">>}

RateLimited(outcome) == outcome.kind = "error" /\ outcome.text \in RateLimitTexts
OtherError(outcome) == outcome.kind = "error" /\ outcome.text \notin RateLimitTexts

\* C16: a call never makes more than MAX_RETRIES attempts; when it returns after a
\* rate-limited attempt (so that every attempt of the call was rate-limited), it has
\* made exactly MAX_RETRIES attempts, has waited once between consecutive attempts
\* and not after the last, and returns None.
C16_RateLimitExhausted ==
    /\ attempts_made <= MAX_RETRIES
    /\ Len(waits) <= attempts_made
    /\ (retry_pc = "returned" /\ RateLimited(last_outcome)) =>
          /\ attempts_made = MAX_RETRIES
          /\ Len(waits) = MAX_RETRIES - 1
          /\ retry_result = NoInfo

C16_Witness ==
    /\ retry_pc = "returned"
    /\ RateLimited(last_outcome)
    /\ attempts_made = 5
    /\ Len(waits) = 4
    /\ retry_result = NoInfo

\* C17: an attempt that fails with an error that is no rate-limit signal ends the
\* call at once with None: no wait follows it and no further attempt is made,
\* on the first attempt and after earlier rate-limited attempts alike.
C17_OtherErrorReturnsAtOnce ==
    [][/\ (retry_pc = "try" /\ OtherError(last_outcome')) =>
             /\ retry_pc' = "returned"
             /\ retry_result' = NoInfo
             /\ waits' = waits
       /\ (retry_pc = "returned" /\ OtherError(last_outcome) /\ retry_pc' = "returned") =>
             UNCHANGED <<attempts_made, waits, retry_result>>
       /\ (retry_pc' = "returned" /\ OtherError(last_outcome')) =>
             Len(waits') = attempts_made' - 1]_vars

C17_Witness ==
    /\ retry_pc = "returned"
    /\ OtherError(last_outcome)
    /\ attempts_made = 3
    /\ Len(waits) = 2
    /\ retry_result = NoInfo

\* ------------------------------------------------------------------------
\* process_batch

\* the most files of a batch
MaxFiles == 3

\* the variables process_batch leaves alone
beside_batch_vars ==
    <<recon_vars, store_vars, load_vars, run_vars, retry_vars, after_batch_vars>>

Digits == <<"1", "2", "3", "4", "5", "6", "7", "8", "9">>

\* audio_path.name of the batch's i-th file
FileName(i) == <<"f", Digits[i]>>

\* a file that load_audio rejects, an empty recording, a recording without any
\* match, and a recording with a track
FileKinds ==
    {[audio_ok |-> FALSE, answers |-> <<>>],
     [audio_ok |-> TRUE, answers |-> <<>>],
     [audio_ok |-> TRUE, answers |-> <<NoInfo, NoInfo>>],
     [audio_ok |-> TRUE, answers |-> <<InfoA, InfoA, NoInfo>>]}

BatchInputs == UNION {[1..n -> FileKinds] : n \in 0..MaxFiles}

\* process_single_file on the i-th file, run from start to end with no progress
\* file: None after a load failure, else the Tracklist, or the TypeError that
\* results_to_tracklist raised
process_single_file(i) ==
    IF ~files[i].audio_ok
    THEN [kind |-> "None", tracklist |-> NotCalled]
    ELSE LET r == results_to_tracklist(Stamp(files[i].answers), FileName(i),
                                       [corrections |-> corrections])
         IN IF r = TypeError
            THEN [kind |-> "TypeError", tracklist |-> NotCalled]
            ELSE [kind |-> "tuple", tracklist |-> r]

\* the recognition calls of that run
CallsFor(i) ==
    IF files[i].audio_ok
    THEN [k \in 1..Len(files[i].answers) |-> <<i, k>>]
    ELSE <<>>

\* one iteration of `for idx, file in enumerate(audio_files, 1)'; an exception
\* raised by process_single_file leaves process_batch
ProcessFile ==
    /\ batch_pc = "loop"
    /\ batch_idx <= Len(files)
    /\ LET r == process_single_file(batch_idx)
       IN /\ batch_calls' = batch_calls \o CallsFor(batch_idx)
          /\ CASE r.kind = "TypeError" ->
                     /\ batch_pc' = "raised"
                     /\ UNCHANGED <<batch_idx, batch_results>>
               [] r.kind = "None" ->
                     /\ batch_idx' = batch_idx + 1
                     /\ UNCHANGED <<batch_pc, batch_results>>
               [] OTHER ->
                     /\ batch_results' =
                           Append(batch_results,
                                  [tracklist |-> r.tracklist, file |-> batch_idx])
                     /\ batch_idx' = batch_idx + 1
                     /\ UNCHANGED batch_pc
    /\ UNCHANGED <<files, beside_batch_vars>>

\* the loop is exhausted: return results
BatchDone ==
    /\ batch_pc = "loop"
    /\ batch_idx > Len(files)
    /\ batch_pc' = "returned"
    /\ UNCHANGED <<files, batch_idx, batch_results, batch_calls, beside_batch_vars>>

\* process_batch has been called and stands before its loop: results = []
BatchInit ==
    /\ ReconIdle
    /\ StoreIdle
    /\ LoadIdle
    /\ RunIdle
    /\ RetryIdle
    /\ MarkdownIdle
    /\ PlayIdle
    /\ files \in BatchInputs
    /\ batch_pc = "loop"
    /\ batch_idx = 1
    /\ batch_results = <<>>
    /\ batch_calls = <<>>

BatchNext == ProcessFile \/ BatchDone

SpecBatch == BatchInit /\ [][BatchNext]_vars

\* process_single_file was called on the j-th file
Called(j) == j < batch_idx \/ (batch_pc = "raised" /\ j = batch_idx)

\* the files among the first n that load, in input order
RECURSIVE Loadable(_)
Loadable(n) ==
    IF n = 0 THEN <<>>
    ELSE IF files[n].audio_ok THEN Append(Loadable(n - 1), n) ELSE Loadable(n - 1)

\* no recognition call was made for a file that does not load
NoCallForUnloadable ==
    \A c \in DOMAIN batch_calls : files[batch_calls[c][1]].audio_ok

\* the returned list holds exactly the files processed successfully, in input order
ReturnsSuccessesInOrder ==
    batch_pc = "returned" =>
        [m \in DOMAIN batch_results |-> batch_results[m].file] = Loadable(Len(files))

\* C18: a file whose audio fails to load is skipped without a recognition call,
\* every later file of the batch is still processed, and the returned list holds
\* exactly the successfully processed files in input order.
C18_LoadFailureSkipped ==
    /\ NoCallForUnloadable
    /\ batch_pc \in {"returned", "raised"} =>
          \A i, j \in DOMAIN files :
              (Called(i) /\ ~files[i].audio_ok /\ i < j) => Called(j)
    /\ ReturnsSuccessesInOrder

\* what does hold: the step that meets a file that does not load makes no
\* recognition call, adds nothing to the results, raises nothing and moves on to the
\* next file; and a batch that returns returns the loadable files in input order
C18_LoadFailureMovesOn ==
    [][/\ (batch_pc = "loop" /\ batch_idx \in DOMAIN files
           /\ ~files[batch_idx].audio_ok) =>
             /\ batch_pc' = "loop"
             /\ batch_idx' = batch_idx + 1
             /\ batch_calls' = batch_calls
             /\ batch_results' = batch_results
       /\ NoCallForUnloadable'
       /\ ReturnsSuccessesInOrder']_vars

\* ------------------------------------------------------------------------
\* Tracklist.to_markdown and parse_markdown_tracklist (editor.py)

\* the most tracks of a tracklist written as markdown
MaxMdTracks == 3

\* the variables to_markdown and parse_markdown_tracklist leave alone
beside_md_vars ==
    <<recon_vars, store_vars, load_vars, run_vars, retry_vars, batch_vars, play_vars>>

DigitChars == <<"0", "1", "2", "3", "4", "5", "6", "7", "8", "9">>

\* str(n) for an int n >= 0
RECURSIVE Decimal(_)
Decimal(n) ==
    IF n < 10 THEN <<DigitChars[n + 1]>>
    ELSE Decimal(n \div 10) \o <<DigitChars[(n % 10) + 1]>>

\* f"{n:02d}"
TwoDigits(n) == IF n < 10 THEN <<"0">> \o Decimal(n) ELSE Decimal(n)

\* Track.time_str
time_str(timestamp) ==
    LET hours == timestamp \div 3600
        minutes == (timestamp % 3600) \div 60
        secs == timestamp % 60
    IN IF hours > 0
       THEN Decimal(hours) \o <<":">> \o TwoDigits(minutes) \o <<":">> \o TwoDigits(secs)
       ELSE Decimal(minutes) \o <<":">> \o TwoDigits(secs)

\* (variant: a rejected track uses up a number)
track_num_by_position(tracks, i) == i

\* track_num when to_markdown's loop reaches tracks[i]: 1, plus one for every track
\* written before
track_num(tracks, i) == 1 + Cardinality({j \in 1..(i - 1) : ~tracks[j].rejected})

\* the line to_markdown appends for a track that is not rejected
track_line(num, track) ==
    IF is_unidentified(track)
    THEN Decimal(num) \o <<".", " ", "*", "U", "n", "i", "d", "e", "n", "t", "i", "f", "i", "e", "d", "*", " ", "(">> \o time_str(track.timestamp) \o <<")">>
    ELSE Decimal(num) \o <<".", " ", "*", "*">> \o track.artist \o <<"*", "*", " ", "-", " ">> \o track.title
         \o <<" ", "(">> \o time_str(track.timestamp) \o <<")">>

\* the lines to_markdown appends for tracks[i..]
RECURSIVE track_lines(_, _)
track_lines(tracks, i) ==
    IF i > Len(tracks) THEN <<>>
    ELSE IF tracks[i].rejected THEN track_lines(tracks, i + 1)
    ELSE <<track_line(track_num(tracks, i), tracks[i])>> \o track_lines(tracks, i + 1)

\* "\n".join(lines)
RECURSIVE Join(_)
Join(lines) ==
    IF lines = <<>> THEN <<>>
    ELSE IF Len(lines) = 1 THEN lines[1]
    ELSE lines[1] \o <<"\n">> \o Join(Tail(lines))

\* Tracklist.to_markdown
to_markdown(source_file, generated_on, tracks) ==
    Join(<<<<"#", " ", "T", "r", "a", "c", "k", "l", "i", "s", "t", ":", " ">> \o source_file, <<>>,
           <<"*", "G", "e", "n", "e", "r", "a", "t", "e", "d", " ", "o", "n", " ">> \o generated_on \o <<"*">>, <<>>>>
         \o track_lines(tracks, 1) \o <<<<>>>>)

\* s.split("\n")
RECURSIVE Split(_)
Split(s) ==
    IF \A i \in DOMAIN s : s[i] # "\n" THEN <<s>>
    ELSE LET i == CHOOSE i \in DOMAIN s :
                      s[i] = "\n" /\ \A j \in 1..(i - 1) : s[j] # "\n"
         IN <<SubSeq(s, 1, i - 1)>> \o Split(SubSeq(s, i + 1, Len(s)))

\* s.startswith(prefix)
StartsWith(s, prefix) == Len(prefix) <= Len(s) /\ SubSeq(s, 1, Len(prefix)) = prefix

\* s.replace(old, ""), for a non-empty old
RECURSIVE Remove(_, _)
Remove(s, old) ==
    IF s = <<>> THEN <<>>
    ELSE IF StartsWith(s, old) THEN Remove(SubSeq(s, Len(old) + 1, Len(s)), old)
    ELSE <<Head(s)>> \o Remove(Tail(s), old)

\* \d
IsDigit(c) == \E d \in DOMAIN DigitChars : DigitChars[d] = c

\* int(s) for a non-empty string of digits
RECURSIVE ParseInt(_)
ParseInt(s) ==
    IF s = <<>> THEN 0
    ELSE 10 * ParseInt(SubSeq(s, 1, Len(s) - 1))
         + (CHOOSE d \in DOMAIN DigitChars : DigitChars[d] = s[Len(s)]) - 1

\* the first position from p on that holds no digit (Len(s) + 1 if there is none)
RECURSIVE SkipDigits(_, _)
SkipDigits(s, p) == IF p <= Len(s) /\ IsDigit(s[p]) THEN SkipDigits(s, p + 1) ELSE p

\* the first position from p on that holds no whitespace
RECURSIVE SkipSpace(_, _)
SkipSpace(s, p) == IF p <= Len(s) /\ IsSpace(s[p]) THEN SkipSpace(s, p + 1) ELSE p

\* s has c at position p
CharAt(s, p, c) == p <= Len(s) /\ s[p] = c

\* s has sub at position p
SubAt(s, p, sub) == p + Len(sub) - 1 <= Len(s) /\ SubSeq(s, p, p + Len(sub) - 1) = sub

NoMatch == [ok |-> FALSE]

\* ^\d+\.\s+ : the position the match of the rest starts at
NumberPrefix(s) ==
    LET dot == SkipDigits(s, 1)
        rest == SkipSpace(s, dot + 1)
    IN IF dot > 1 /\ CharAt(s, dot, ".") /\ rest > dot + 1
       THEN [ok |-> TRUE, next |-> rest]
       ELSE NoMatch

\* \s*\((\d+:\d+(?::\d+)?)\) matched at position p: the parts of group 3
TimeGroup(s, p) ==
    LET open == SkipSpace(s, p)
        colon == SkipDigits(s, open + 1)
        after2 == SkipDigits(s, colon + 1)
        after3 == SkipDigits(s, after2 + 1)
        two == <<SubSeq(s, open + 1, colon - 1), SubSeq(s, colon + 1, after2 - 1)>>
    IN IF ~(CharAt(s, open, "(") /\ colon > open + 1 /\ CharAt(s, colon, ":")
            /\ after2 > colon + 1)
       THEN NoMatch
       ELSE IF CharAt(s, after2, ":") /\ after3 > after2 + 1 /\ CharAt(s, after3, ")")
       THEN [ok |-> TRUE, parts |-> two \o <<SubSeq(s, after2 + 1, after3 - 1)>>]
       ELSE IF CharAt(s, after2, ")")
       THEN [ok |-> TRUE, parts |-> two]
       ELSE NoMatch

\* \s*-\s*(.+?) and the time, matched at position p: the ways to match, as
\* <<whitespace taken after the dash, last position of group 2>>
TitleMatches(s, p) ==
    LET dash == SkipSpace(s, p)
        space == SkipSpace(s, dash + 1) - (dash + 1)
    IN IF ~CharAt(s, dash, "-") THEN {}
       ELSE {m \in (0..space) \X ((dash + 1)..Len(s)) :
                /\ m[2] >= dash + 1 + m[1]
                /\ \A i \in (dash + 1 + m[1])..m[2] : s[i] # "\n"
                /\ TimeGroup(s, m[2] + 1).ok}

\* \*\*(.+?)\*\* and the rest, matched at position p: the last positions group 1 can have
ArtistEnds(s, p) ==
    IF ~SubAt(s, p, <<"*", "*">>) THEN {}
    ELSE {e \in (p + 2)..Len(s) :
             /\ \A i \in (p + 2)..e : s[i] # "\n"
             /\ SubAt(s, e + 1, <<"*", "*">>)
             /\ TitleMatches(s, e + 3) # {}}

\* the match the backtracking search finds first for the **Artist** - Title
\* alternative: the lazy group 1 as short as it can be, then the greedy \s* after the
\* dash as long as it can be, then the lazy group 2 as short as it can be
ArtistTitleMatch(s, p) ==
    LET ends == ArtistEnds(s, p)
        e == CHOOSE e \in ends : \A f \in ends : e <= f
        ms == TitleMatches(s, e + 3)
        m == CHOOSE m \in ms :
                 \A n \in ms : m[1] > n[1] \/ (m[1] = n[1] /\ m[2] <= n[2])
        dash == SkipSpace(s, e + 3)
    IN IF ends = {} THEN NoMatch
       ELSE [ok |-> TRUE,
             artist |-> SubSeq(s, p + 2, e),
             title |-> SubSeq(s, dash + 1 + m[1], m[2]),
             parts |-> TimeGroup(s, m[2] + 1).parts]

\* track_pattern.match(s): the groups, or no match
track_pattern_match(s) ==
    LET prefix == NumberPrefix(s)
        first == ArtistTitleMatch(s, prefix.next)
        time == TimeGroup(s, prefix.next + 14)
    IN IF ~prefix.ok THEN NoMatch
       ELSE IF first.ok THEN first
       ELSE IF SubAt(s, prefix.next, <<"*", "U", "n", "i", "d", "e", "n", "t", "i", "f", "i", "e", "d", "*">>) /\ time.ok
       THEN [ok |-> TRUE, artist |-> <<>>, title |-> <<>>, parts |-> time.parts]
       ELSE NoMatch

\* "Parse timestamp"
parse_timestamp(parts) ==
    IF Len(parts) = 3
    THEN ParseInt(parts[1]) * 3600 + ParseInt(parts[2]) * 60 + ParseInt(parts[3])
    ELSE ParseInt(parts[1]) * 60 + ParseInt(parts[2])

\* the Track parse_markdown_tracklist builds from a match
TrackOfMatch(match) ==
    Track([timestamp |-> parse_timestamp(match.parts),
           artist |-> Strip(match.artist),
           title |-> Strip(match.title),
           original_artist |-> IF match.artist # <<>> THEN Strip(match.artist) ELSE None,
           original_title |-> IF match.title # <<>> THEN Strip(match.title) ELSE None])

\* "Parse tracks": the tracks of the lines that match, in order
RECURSIVE parse_tracks(_)
parse_tracks(lines) ==
    IF lines = <<>> THEN <<>>
    ELSE LET match == track_pattern_match(Strip(Head(lines)))
         IN (IF match.ok THEN <<TrackOfMatch(match)>> ELSE <<>>)
            \o parse_tracks(Tail(lines))

\* "Parse header": the source file of the first line that starts with "# Tracklist:"
parse_source_file(lines) ==
    LET found == {i \in DOMAIN lines : StartsWith(lines[i], <<"#", " ", "T", "r", "a", "c", "k", "l", "i", "s", "t", ":">>)}
        i == CHOOSE i \in found : \A j \in found : i <= j
    IN IF found = {} THEN <<>> ELSE Strip(Remove(lines[i], <<"#", " ", "T", "r", "a", "c", "k", "l", "i", "s", "t", ":">>))

\* re.search(r"\*Generated on (.+)\*", line): group 1 of the leftmost match, whose
\* greedy group runs to the line's last asterisk
generated_on_search(line) ==
    LET stars == {j \in DOMAIN line : line[j] = "*"}
        last == CHOOSE j \in stars : \A k \in stars : j >= k
        starts == {i \in DOMAIN line : SubAt(line, i, <<"*", "G", "e", "n", "e", "r", "a", "t", "e", "d", " ", "o", "n", " ">>) /\ last >= i + 15}
        i == CHOOSE i \in starts : \A k \in starts : i <= k
    IN IF stars = {} \/ starts = {} THEN None ELSE SubSeq(line, i + 14, last - 1)

\* "Parse generation date": from the first line that starts with "*Generated on"
parse_generated_on(lines) ==
    LET found == {i \in DOMAIN lines : StartsWith(lines[i], <<"*", "G", "e", "n", "e", "r", "a", "t", "e", "d", " ", "o", "n">>)}
        i == CHOOSE i \in found : \A j \in found : i <= j
    IN IF found = {} THEN None ELSE generated_on_search(lines[i])

\* parse_markdown_tracklist
parse_markdown_tracklist(content) ==
    LET lines == Split(Strip(content))
    IN [source_file |-> parse_source_file(lines),
        generated_on |-> parse_generated_on(lines),
        tracks |-> parse_tracks(lines)]

\* the names of the tracks written: a plain one, an unidentified track, a track whose
\* artist was cleared in the editor, one without a title, and names with a leading
\* space, a time in parentheses and a pair of asterisks
MdNames ==
    {<<<<"p">>, <<"t">>>>, <<<<>>, <<>>>>, <<<<>>, <<"t">>>>, <<<<"p">>, <<>>>>, <<<<" ", "p">>, <<"t">>>>,
     <<<<"p">>, <<"t", " ", "(", "0", ":", "0", "7", ")">>>>, <<<<"p", "*", "*", " ", "-", " ", "q">>, <<"t">>>>}

\* the names of the rejected tracks
MdRejectedNames == {<<<<"p">>, <<"t">>>>}

\* the timestamp of the i-th track: below one hour, or an hour later
MdTime(i, hour) == 3600 * hour + 60 * i + 7

\* the tracks position i can hold
MdTracksAt(i) ==
    {Track([timestamp |-> MdTime(i, hour), artist |-> name[1], title |-> name[2],
            rejected |-> FALSE]) : name \in MdNames, hour \in {0, 1}}
    \cup {Track([timestamp |-> MdTime(i, hour), artist |-> name[1], title |-> name[2],
                 rejected |-> TRUE]) : name \in MdRejectedNames, hour \in {0, 1}}

\* the tracklists of n tracks with ascending timestamps
RECURSIVE MdLists(_)
MdLists(n) ==
    IF n = 0 THEN {<<>>}
    ELSE {Append(tracks, track) : tracks \in MdLists(n - 1),
                                  track \in {t \in MdTracksAt(n) : n = 1 \/ t.timestamp >= 3600}}
         \cup {Append(tracks, track) :
                  tracks \in {l \in MdLists(n - 1) : n = 1 \/ l[n - 1].timestamp < 3600},
                  track \in {t \in MdTracksAt(n) : n > 1 /\ t.timestamp < 3600}}

\* the tracklists written: up to MaxMdTracks tracks with ascending timestamps
MdInputs == UNION {MdLists(n) : n \in 0..MaxMdTracks}

\* tracklist.to_markdown() on Tracklist(source_file, tracks, generated_on)
ToMarkdown ==
    /\ md_pc = "start"
    /\ markdown' = to_markdown(SourceName, Now, md_tracks)
    /\ md_pc' = "written"
    /\ UNCHANGED <<md_tracks, parsed, sidecar, coverart_urls, beside_md_vars>>

\* parse_markdown_tracklist(content) on what to_markdown returned
ParseMarkdown ==
    /\ md_pc = "written"
    /\ parsed' = parse_markdown_tracklist(markdown)
    /\ md_pc' = "parsed"
    /\ UNCHANGED <<md_tracks, markdown, sidecar, coverart_urls, beside_md_vars>>

MarkdownInit ==
    /\ ReconIdle /\ StoreIdle /\ LoadIdle /\ RunIdle /\ RetryIdle /\ BatchIdle /\ PlayIdle
    /\ md_tracks \in MdInputs
    /\ markdown = <<>>
    /\ parsed = <<>>
    /\ md_pc = "start"
    /\ sidecar = NoSidecar
    /\ coverart_urls = <<>>

MarkdownNext == ToMarkdown \/ ParseMarkdown

SpecMarkdown == MarkdownInit /\ [][MarkdownNext]_vars

\* the (artist, title, timestamp) triples of the tracks
Triples(tracks) == [i \in DOMAIN tracks |-> <<tracks[i].artist, tracks[i].title, tracks[i].timestamp>>]

\* the tracks that are not rejected, in order
RECURSIVE Kept(_)
Kept(tracks) ==
    IF tracks = <<>> THEN <<>>
    ELSE (IF Head(tracks).rejected THEN <<>> ELSE <<Head(tracks)>>) \o Kept(Tail(tracks))

\* C19: parse_markdown_tracklist(tracklist.to_markdown()) yields, in the same order,
\* exactly the (artist, title, timestamp) triples of the tracklist's non-rejected
\* tracks, below one hour and from one hour on alike.
C19_RoundTrip == md_pc = "parsed" => Triples(parsed.tracks) = Triples(Kept(md_tracks))

\* a name the markdown line gives back: no space at either end, no pair of
\* asterisks, no time in parentheses, and an artist wherever there is a title
PlainName(track) ==
    /\ track.artist = Strip(track.artist)
    /\ track.title = Strip(track.title)
    /\ track.artist = <<>> => track.title = <<>>
    /\ ~Contains(<<"*", "*">>, track.artist)
    /\ ~Contains(<<"(", "0", ":", "0", "7", ")">>, track.title)

\* C19, for plain names: the round trip gives back the triples of the tracks that
\* are not rejected.
C19_PlainRoundTrip ==
    (md_pc = "parsed" /\ \A i \in DOMAIN md_tracks : PlainName(md_tracks[i]))
        => Triples(parsed.tracks) = Triples(Kept(md_tracks))

\* three tracks went round: one below an hour, one above, one rejected
C19_PlainWitness ==
    /\ md_pc = "parsed"
    /\ \A i \in DOMAIN md_tracks : PlainName(md_tracks[i])
    /\ \E i, j \in DOMAIN md_tracks :
          /\ ~md_tracks[i].rejected /\ md_tracks[i].timestamp < 3600
          /\ ~md_tracks[j].rejected /\ md_tracks[j].timestamp >= 3600

\* s.endswith(suffix)
EndsWith(s, suffix) == Len(suffix) <= Len(s) /\ SubSeq(s, Len(s) - Len(suffix) + 1, Len(s)) = suffix

\* the text of MdTime(i, hour) in a line, written out by hand
MdTimeText(timestamp) ==
    LET i == (timestamp % 3600) \div 60
    IN IF timestamp >= 3600
       THEN <<"(", "1", ":", "0", DigitChars[i + 1], ":", "0", "7", ")">>
       ELSE <<"(", DigitChars[i + 1], ":", "0", "7", ")">>

\* C20: to_markdown emits one numbered line per track that is not rejected and none
\* for a rejected track, in tracklist order, and the lines are numbered 1, 2, ..., n
\* without gaps, n being the number of tracks that are not rejected.
C20_NumberedWithoutGaps ==
    md_pc # "start" =>
        LET lines == Split(markdown)
            kept == Kept(md_tracks)
        IN /\ Len(lines) = 4 + Len(kept) + 1
           /\ lines[Len(lines)] = <<>>
           /\ \A m \in DOMAIN kept :
                 /\ StartsWith(lines[4 + m], Decimal(m) \o <<".", " ">>)
                 /\ EndsWith(lines[4 + m], MdTimeText(kept[m].timestamp))

\* a tracklist was written in which a rejected track stands between two that are kept
C20_Witness ==
    /\ md_pc = "written"
    /\ \E i, j, k \in DOMAIN md_tracks :
          /\ i < j /\ j < k
          /\ ~md_tracks[i].rejected /\ md_tracks[j].rejected /\ ~md_tracks[k].rejected

\* ------------------------------------------------------------------------
\* Further properties of reconciliation (checked under Spec)

\* the first output entry that is identified
FirstIdentified == CHOOSE k \in DOMAIN deduped : Identified(deduped[k]) /\ \A m \in 1..(k - 1) : ~Identified(deduped[m])

\* sample i is unmatched, or matched with a key no other sample carries
UnmatchedOrSingleton(i) == ~Matched(i) \/ Cardinality(Occurrences(i)) = 1

\* C27: no gap is recorded before last_track_key is set: unmatched or singleton
\* samples that precede the first emitted track give no output entry, so the first
\* entry of a non-empty output of deduplicate_tracklist is never unidentified and no
\* unidentified entry carries the timestamp of a sample before the first track.
C27_NoLeadingGap ==
    (Done /\ deduped # <<>>) =>
        /\ Identified(deduped[1])
        /\ \A k \in DOMAIN deduped : ~Identified(deduped[k]) => deduped[k][1] > deduped[1][1]

\* unmatched and singleton samples came before the first track, and an output was made
C27_Witness ==
    /\ Done
    /\ Len(raw_results) >= 4
    /\ ~Matched(1)
    /\ Matched(2) /\ UnmatchedOrSingleton(2)
    /\ deduped # <<>>
    /\ deduped[1][1] = Ts(3)
    /\ \E k \in DOMAIN deduped : ~Identified(deduped[k])

\* sample i is the first sample of a key that occurs in at least two samples
FirstOfRepeatedKey(i) ==
    /\ Matched(i)
    /\ \E j \in DOMAIN raw_results : j # i /\ SameKey(i, j)
    /\ \A j \in 1..(i - 1) : ~SameKey(i, j)

\* output entry k is sample i, and no earlier output entry carries sample i's key
FirstEntryIs(k, i) ==
    /\ deduped[k] = raw_results[i]
    /\ \A m \in 1..(k - 1) : ~IsOfKey(deduped[m], i)

\* C29: reconciliation never drops or reorders a legitimate track: every key that
\* occurs in at least two samples appears as an identified output entry, its first
\* output entry is the key's first sample with that sample's timestamp, the keys'
\* first entries stand in the order of the keys' first samples, and the identified
\* output entries are samples of the input in the input's order.
C29_NoTrackDroppedOrReordered ==
    Done =>
        /\ \A i \in DOMAIN raw_results :
              FirstOfRepeatedKey(i) => \E k \in DOMAIN deduped : FirstEntryIs(k, i)
        /\ \A i, j \in DOMAIN raw_results :
              (i < j /\ FirstOfRepeatedKey(i) /\ FirstOfRepeatedKey(j)) =>
                  \E k, m \in DOMAIN deduped :
                      k < m /\ FirstEntryIs(k, i) /\ FirstEntryIs(m, j)
        /\ \A k \in DOMAIN deduped :
              Identified(deduped[k]) => \E i \in DOMAIN raw_results : raw_results[i] = deduped[k]
        /\ \A k, m \in DOMAIN deduped :
              (k < m /\ Identified(deduped[k]) /\ Identified(deduped[m]))
                  => deduped[k][1] < deduped[m][1]

\* the output entries that carry sample i's key
EntriesOfKey(i) == {k \in DOMAIN deduped : IsOfKey(deduped[k], i)}

\* two keys with exactly two samples each, interleaved, both made it to the output
C29_Witness ==
    /\ Done
    /\ \E i, j \in DOMAIN raw_results :
          /\ Matched(i) /\ Matched(j) /\ ~SameKey(i, j)
          /\ Cardinality(Occurrences(i)) = 2
          /\ Cardinality(Occurrences(j)) = 2
          /\ FirstOfRepeatedKey(i) /\ FirstOfRepeatedKey(j) /\ i < j
          /\ \E n \in Occurrences(i) : n > j
          /\ Cardinality(EntriesOfKey(i)) = 2
          /\ EntriesOfKey(j) # {}

\* the shazam_url, album and artwork URL a Track carries (None where it has no such
\* attribute)
Metadata(track) == <<GetOr(track, "shazam_url", None), GetOr(track, "album", None), GetOr(track, "coverart_url", None)>>

\* the same of a recognition result
InfoMetadata(track_info) == <<Get(track_info, "shazam_url"), Get(track_info, "album"), Get(track_info, "coverart_url")>>

\* C23: for every input on which reconciliation emits an identified track,
\* results_to_tracklist returns a Tracklist whose Track carries the shazam_url,
\* album and artwork URL of the first sample of its run, each unset when the sample
\* lacks it; unidentified Tracks carry none of them.
C23_MetadataCarried ==
    (Done /\ \E k \in DOMAIN deduped : Identified(deduped[k])) =>
        /\ IsTracklist(result)
        /\ DOMAIN result.tracks = DOMAIN deduped
        /\ \A k \in DOMAIN deduped :
              /\ result.tracks[k].timestamp = deduped[k][1]
              /\ Identified(deduped[k]) =>
                    \E i \in DOMAIN raw_results :
                        /\ Ts(i) = deduped[k][1]
                        /\ Matched(i)
                        /\ Metadata(result.tracks[k]) = InfoMetadata(raw_results[i][2])
              /\ ~Identified(deduped[k]) =>
                    Metadata(result.tracks[k]) = <<None, None, None>>

\* C23, what the conversion does: an output with an identified entry ends the call
\* in the TypeError of Track(coverart_url=...), and a call that returns returns a
\* Tracklist without tracks.
C23_ConversionRaises ==
    Done =>
        /\ (\E k \in DOMAIN deduped : Identified(deduped[k])) => result = TypeError
        /\ IsTracklist(result) => (deduped = <<>> /\ result.tracks = <<>>)

\* a run of a track with all its metadata was reconciled
C23_RaisesWitness ==
    /\ Done
    /\ Len(raw_results) >= 2
    /\ raw_results[1][2] = InfoA
    /\ raw_results[2][2] = InfoA
    /\ deduped[1] = <<0, InfoA>>
    /\ result = TypeError

\* ------------------------------------------------------------------------
\* Further properties of identify_sample_with_retry (checked under SpecRetry)

\* the least and the greatest n-th wait, in seconds
WaitAtLeast == <<30, 60, 120, 240>>
WaitAtMost == <<33, 66, 132, 264>>

\* C24: the wait before the n-th retry (n = 1 .. MAX_RETRIES - 1) is the current
\* backoff plus a jitter between 0 and 10% of it, the backoff starting at
\* INITIAL_BACKOFF = 30 seconds and doubling after each rate-limited attempt: the
\* successive waits lie in [30, 33], [60, 66], [120, 132], [240, 264].
C24_BackoffDoubles ==
    /\ Len(waits) <= MAX_RETRIES - 1
    /\ \A n \in DOMAIN waits : WaitAtLeast[n] <= waits[n] /\ waits[n] <= WaitAtMost[n]
    /\ retry_pc # "idle" =>
          backoff = (IF Len(waits) = 0 THEN INITIAL_BACKOFF ELSE 2 * WaitAtLeast[Len(waits)])

\* all four waits were made, the first without jitter and the last with the most
C24_Witness ==
    /\ retry_pc = "returned"
    /\ Len(waits) = MAX_RETRIES - 1
    /\ waits[1] = 30
    /\ waits[MAX_RETRIES - 1] = 264
    /\ attempts_made = MAX_RETRIES

\* ------------------------------------------------------------------------
\* Further properties of process_single_file (checked under SpecRun)

\* the sample loop of the current run has ended
LoopEnded == run_pc \in {"convert", "write", "cleanup", "return", "returned", "raised"}

\* C25: within one file, process_single_file suspends for delay_seconds after every
\* processed sample except the file's last, and no recognition call starts before
\* the delay of the sample before it has elapsed: a run that processes samples
\* k+1..N of an N-sample file sleeps exactly N-k-1 times, and never after sample N.
C25_DelayBetweenSamples ==
    /\ \A n \in DOMAIN sleeps : sleeps[n] = start_index + n /\ sleeps[n] < total_slices
    /\ \A c \in DOMAIN calls :
          /\ calls[c] = start_index + c
          /\ c > 1 => \E n \in DOMAIN sleeps : sleeps[n] = calls[c] - 1
    /\ Len(calls) - 1 <= Len(sleeps) /\ Len(sleeps) <= Len(calls)
    /\ (LoopEnded /\ start_index < total_slices) =>
          Len(sleeps) = total_slices - start_index - 1

\* a resumed run has gone through samples 2 and 3 of three and slept once in between
C25_Witness ==
    /\ LoopEnded
    /\ total_slices = 3
    /\ start_index = 1
    /\ calls = <<2, 3>>
    /\ sleeps = <<2>>

\* ------------------------------------------------------------------------
\* The editor session: run_editor and TracklistEditor._on_edit_complete (editor.py)

\* the most tracks of the tracklist opened in the editor
MaxEditTracks == 2

\* Track.was_corrected
was_corrected(track) ==
    IF track.original_artist = None /\ track.original_title = None
    THEN FALSE
    ELSE track.artist # track.original_artist \/ track.title # track.original_title

\* x or ""
OrEmpty(x) == IF x = None THEN <<>> ELSE x

\* _on_edit_complete(idx, (artist, title)): the track afterwards
edited_track(track, artist, title) ==
    [track EXCEPT !.original_artist = IF @ = None THEN track.artist ELSE @,
                  !.original_title = IF @ = None THEN track.title ELSE @,
                  !.artist = artist,
                  !.title = title]

\* "Record correction for learning": the store after the edit
edited_corrections(corr, track) ==
    IF was_corrected(track)
    THEN add_correction(corr, OrEmpty(track.original_artist),
                        OrEmpty(track.original_title), track.artist, track.title)
    ELSE corr

\* the variables of the playback, and those the editor's handlers of edits and
\* saves leave alone
playback_vars ==
    <<audio_file, sounddevice_available, playback_engine, engines, streams, loading_audio,
      playback_timer, timers, workers, thread_calls, exited, main>>

beside_editor_vars == <<recon_vars, run_vars, retry_vars, batch_vars, playback_vars>>

\* the app is running; db_pc is "none" when it was given no store
\* (use_corrections=False)
EditorOpen == db_pc # "new" /\ ~exited

\* self.corrections_db, as a truth value
HasStore == db_pc # "none"

\* the store file of an earlier session: none, or one holding a correction
EditFiles ==
    {NoFile, SavedStore(add_correction(<<>>, <<"p">>, <<"t">>, <<"P">>, <<"t">>))}

\* the tracks the opened tracklist may hold at position i: built by a caller
\* without original values, unidentified, and parsed from markdown
EditTracksAt(i) ==
    LET timestamp == SampleSeconds * (i - 1)
    IN {PlainTrack(timestamp, <<"p">>, <<"t">>), PlainTrack(timestamp, <<>>, <<>>),
        ParsedTrack(timestamp, <<"p">>, <<"t">>)}

RECURSIVE EditLists(_)
EditLists(n) ==
    IF n = 0 THEN {<<>>}
    ELSE {Append(tracks, track) : tracks \in EditLists(n - 1), track \in EditTracksAt(n)}

\* what EditTrackScreen.save_changes dismisses with: the stripped inputs
EditNames == {<<<<"p">>, <<"t">>>>, <<<<"P">>, <<"t">>>>, <<<<"q">>, <<"b">>>>}

\* what run_editor's apply_corrections leaves of the tracklist, with the store
\* CorrectionsDB() has loaded from the file
OpenedWith(file, tracks) == apply_corrections(load(file).corrections, tracks)

\* run_editor(tracklist, output_path, use_corrections): CorrectionsDB() and
\* apply_corrections, or no store, and the app starts
RunEditor(use_corrections) ==
    /\ db_pc = "new"
    /\ md_pc = "start"
    /\ before' = tracklist
    /\ IF use_corrections
       THEN /\ corrections' = load(db_file).corrections
            /\ tracklist' = OpenedWith(db_file, tracklist).tracks
            /\ applied' = OpenedWith(db_file, tracklist).applied
            /\ db_pc' = "loaded"
       ELSE /\ db_pc' = "none"
            /\ UNCHANGED <<corrections, tracklist, applied>>
    /\ UNCHANGED <<db_file, db_raised, corrections_type, unsaved_changes, md_vars,
                   beside_editor_vars>>

\* _on_edit_complete(idx, (artist, title)): the edit dialog of track idx is
\* dismissed with a result
EditComplete(i, artist, title) ==
    /\ EditorOpen
    /\ main.name = "idle"
    /\ i \in DOMAIN tracklist
    /\ tracklist' = [tracklist EXCEPT ![i] = edited_track(@, artist, title)]
    /\ unsaved_changes' = TRUE
    /\ corrections' = IF HasStore
                      THEN edited_corrections(corrections, edited_track(tracklist[i], artist, title))
                      ELSE corrections
    /\ UNCHANGED <<before, applied, load_vars, md_vars, beside_editor_vars>>

\* action_toggle_reject, key space, with the cursor on track idx
ToggleReject(i) ==
    /\ EditorOpen
    /\ main.name = "idle"
    /\ i \in DOMAIN tracklist
    /\ tracklist' = [tracklist EXCEPT ![i].rejected = ~@]
    /\ unsaved_changes' = TRUE
    /\ UNCHANGED <<corrections, before, applied, load_vars, md_vars, beside_editor_vars>>

\* the editor is about to be opened on a tracklist
EditInit ==
    /\ ReconIdle /\ RunIdle /\ RetryIdle /\ BatchIdle /\ MarkdownIdle /\ PlayIdle
    /\ corrections = <<>>
    /\ tracklist \in UNION {EditLists(n) : n \in 0..MaxEditTracks}
    /\ before = <<>>
    /\ applied = NoInt
    /\ db_file \in EditFiles
    /\ db_pc = "new"
    /\ db_raised = "none"
    /\ corrections_type = "dict"

EditNext ==
    \/ \E use_corrections \in BOOLEAN : RunEditor(use_corrections)
    \/ \E i \in 1..MaxEditTracks, name \in EditNames : EditComplete(i, name[1], name[2])
    \/ \E i \in 1..MaxEditTracks : ToggleReject(i)

SpecEdit == EditInit /\ [][EditNext]_vars

\* the step is an edit of track i that changes its artist or title
EditChanges(i) ==
    /\ EditorOpen
    /\ i \in DOMAIN tracklist
    /\ <<tracklist'[i].artist, tracklist'[i].title>> # <<tracklist[i].artist, tracklist[i].title>>

\* the step is a finished edit dialog of track i
IsEdit(i) ==
    /\ EditorOpen
    /\ tracklist'[i] # tracklist[i]
    /\ tracklist'[i].rejected = tracklist[i].rejected

\* the step leaves the original values of every track that has them
OriginalsKept ==
    \A i \in DOMAIN tracklist :
        /\ tracklist[i].original_artist # None =>
              tracklist'[i].original_artist = tracklist[i].original_artist
        /\ tracklist[i].original_title # None =>
              tracklist'[i].original_title = tracklist[i].original_title

\* C26: a Track's original_artist/original_title are set only the first time a
\* correction or edit changes its artist/title: once set, no later automatic
\* correction (a repeated apply_corrections) and no later manual edit overwrites
\* them.
C26_OriginalsSetOnce == [][OriginalsKept]_vars

\* C26, for the manual edit alone: _on_edit_complete keeps the original values a
\* track has, and sets those it lacks to the values before the edit.
C26_EditKeepsOriginals ==
    [][\A i \in DOMAIN tracklist :
          IsEdit(i) =>
              /\ tracklist'[i].original_artist =
                    (IF tracklist[i].original_artist = None
                     THEN tracklist[i].artist ELSE tracklist[i].original_artist)
              /\ tracklist'[i].original_title =
                    (IF tracklist[i].original_title = None
                     THEN tracklist[i].title ELSE tracklist[i].original_title)]_vars

\* a track that was edited twice still has the values it was recognized with
C26_EditWitness ==
    /\ EditorOpen
    /\ \E i \in DOMAIN tracklist :
          /\ before[i].original_artist = None
          /\ tracklist[i].artist = <<"q">>
          /\ tracklist[i].original_artist = <<"p">>
          /\ get_correction(corrections, <<"p">>, <<"t">>) = <<<<"q">>, <<"b">>>>

\* apply_corrections was called twice on a track built without original values,
\* and the original artist is no longer the one the track was built with
C26_OverwrittenWitness ==
    /\ applied # NoInt
    /\ \E i \in DOMAIN tracklist :
          /\ before[i].artist = <<"P">>
          /\ before[i].original_artist = <<"p">>
          /\ tracklist[i].original_artist = <<"P">>

\* the store's entry for the original key of a track
StoredFor(corr, track) == get_correction(corr, OrEmpty(track.original_artist), OrEmpty(track.original_title))

\* C28: whenever an edit that changes a track's artist or title away from its
\* pre-edit values is finalized in an editor that has a store, a correction is
\* created or updated in the store, so that after any sequence of edits on a track
\* the store's entry for the track's original key maps to the track's current
\* artist/title.
C28_EditUpdatesStore ==
    [][\A i \in DOMAIN tracklist :
          (EditChanges(i) /\ HasStore) =>
              StoredFor(corrections', tracklist'[i]) = <<tracklist'[i].artist, tracklist'[i].title>>]_vars

\* C28, what the code does: the store is written only while the edited track differs
\* from its original values (was_corrected); its entry for the original key then maps
\* to the new artist/title, and an edit back to the original values, or an edit in
\* an editor without a store, leaves the store as it was.
C28_StoreFollowsCorrectedEdit ==
    [][\A i \in DOMAIN tracklist :
          IsEdit(i) =>
              IF HasStore /\ was_corrected(tracklist'[i])
              THEN StoredFor(corrections', tracklist'[i]) = <<tracklist'[i].artist, tracklist'[i].title>>
              ELSE corrections' = corrections]_vars

\* a track was edited away from its recognized values and back: the store still
\* holds the correction of the first edit
C28_StaleWitness ==
    /\ EditorOpen
    /\ HasStore
    /\ \E i \in DOMAIN tracklist :
          /\ before[i] = PlainTrack(SampleSeconds * (i - 1), <<"p">>, <<"t">>)
          /\ tracklist[i].artist = <<"p">> /\ tracklist[i].title = <<"t">>
          /\ tracklist[i].original_artist = <<"p">>
          /\ StoredFor(corrections, tracklist[i]) = <<<<"q">>, <<"b">>>>

\* ---------------------------------------------------------------------------
\* Playback in the editor: TracklistEditor.action_play, _start_playback_worker
\* and _stop_playback, and PlaybackEngine (SpecPlay). The handlers of key
\* presses, of timers and of call_from_thread run one at a time on the main
\* thread, a statement at a time; each _start_playback_worker runs in a thread
\* of its own, a statement at a time, so a worker's statement can come between
\* two statements of a handler. PlaybackEngine.stop(), is_playing(), the
\* stream's callback and _on_finished wait for the engine's lock; play_segment's
\* assignments take no lock and can come between two statements of a stop().
\* call_from_thread is Textual's and no part of the source: it hands the
\* callback to the main thread, and the worker either goes on at once or waits
\* until the callback has returned. The audio itself loads without error;
\* what sounddevice does inside Stream.stop() and close() beyond stopping and
\* closing the stream is no part of the source.
\* ---------------------------------------------------------------------------

MaxWorkers == 2

beside_play_vars ==
    <<recon_vars, store_vars, load_vars, run_vars, retry_vars, batch_vars, md_vars>>

\* the variables of the playback beside main and unsaved_changes
playback_vars_but_main ==
    <<audio_file, sounddevice_available, playback_engine, engines, streams, loading_audio,
      playback_timer, timers, workers, thread_calls, exited>>

\* what no statement of a handler or of a worker assigns
fixed_play_vars == <<audio_file, sounddevice_available, beside_play_vars>>

\* the main thread runs no handler
Idle == [name |-> "idle", at |-> "idle", engine |-> 0]

MainIdle == main = Idle

\* the main thread is in the handler, before the statement
MainAt(name, at) == main.name = name /\ main.at = at

\* the main thread enters the handler at the statement
Enter(name, at) == [name |-> name, at |-> at, engine |-> 0]

\* PlaybackEngine.__init__: _playing = False, _stream = None, and the lock
NewEngine == [playing |-> FALSE, stream |-> 0, locked |-> FALSE]

\* sd.OutputStream(...) as engine e's play_segment creates it
NewStream(e) == [state |-> "open", engine |-> e]

\* a thread can take the lock of engine e; None has no lock to wait for
Unlocked(e) == IF e = 0 THEN TRUE ELSE ~engines[e].locked

\* a worker thread that has been started and has not run its first statement
NewWorker == [pc |-> "start", engine |-> 0]

\* the worker has not returned
IsRunning(w) == workers[w].pc # "done"

\* _get_current_track(): the table's cursor is on a row of the tracklist
HasCurrentTrack == tracklist # <<>>

\* key p: action_play is called, and reads self.playback_engine
ActionPlay ==
    /\ EditorOpen
    /\ MainIdle
    /\ main' = [name |-> "action_play", at |-> "is_playing", engine |-> playback_engine]
    /\ UNCHANGED <<unsaved_changes, playback_engine, engines, streams, loading_audio,
                   playback_timer, timers, workers, thread_calls, exited, fixed_play_vars>>

\* action_play: if self.playback_engine and self.playback_engine.is_playing():
\* on to _stop_playback, or to the test of _loading_audio; is_playing() waits
\* for the lock
PlayIsPlaying ==
    /\ MainAt("action_play", "is_playing")
    /\ Unlocked(main.engine)
    /\ main' = [main EXCEPT !.at = IF main.engine # 0 /\ engines[main.engine].playing
                                   THEN "loading" ELSE "check_loading"]
    /\ UNCHANGED <<unsaved_changes, playback_engine, engines, streams, loading_audio,
                   playback_timer, timers, workers, thread_calls, exited, fixed_play_vars>>

\* action_play: if ... self._loading_audio: return
PlayCheckLoading ==
    /\ MainAt("action_play", "check_loading")
    /\ main' = (IF loading_audio THEN Idle ELSE [main EXCEPT !.at = "start_worker"])
    /\ UNCHANGED <<unsaved_changes, playback_engine, engines, streams, loading_audio,
                   playback_timer, timers, workers, thread_calls, exited, fixed_play_vars>>

\* action_play: if self.audio_file is None: return; result =
\* self._get_current_track(); if not result: return; the loading bar, and
\* self._start_playback_worker(track.timestamp)
PlayStartWorker ==
    /\ MainAt("action_play", "start_worker")
    /\ IF audio_file /\ HasCurrentTrack
       THEN /\ Len(workers) < MaxWorkers
            /\ workers' = Append(workers, NewWorker)
       ELSE UNCHANGED workers
    /\ main' = Idle
    /\ UNCHANGED <<unsaved_changes, playback_engine, engines, streams, loading_audio,
                   playback_timer, timers, thread_calls, exited, fixed_play_vars>>

\* action_cursor_down and action_cursor_up, keys j and k: _stop_playback is called
ActionCursor ==
    /\ EditorOpen
    /\ MainIdle
    /\ main' = Enter("action_cursor", "loading")
    /\ UNCHANGED <<unsaved_changes, playback_engine, engines, streams, loading_audio,
                   playback_timer, timers, workers, thread_calls, exited, fixed_play_vars>>

\* action_quit, key q: _stop_playback is called
ActionQuit ==
    /\ EditorOpen
    /\ MainIdle
    /\ main' = Enter("action_quit", "loading")
    /\ UNCHANGED <<unsaved_changes, playback_engine, engines, streams, loading_audio,
                   playback_timer, timers, workers, thread_calls, exited, fixed_play_vars>>

\* _stop_playback: self._loading_audio = False
StopLoading ==
    /\ main.at = "loading"
    /\ loading_audio' = FALSE
    /\ main' = [main EXCEPT !.at = "engine"]
    /\ UNCHANGED <<unsaved_changes, playback_engine, engines, streams, playback_timer, timers,
                   workers, thread_calls, exited, fixed_play_vars>>

\* _stop_playback: if self.playback_engine: self.playback_engine.stop() is
\* called on the engine the editor has at this moment
StopEngine ==
    /\ main.at = "engine"
    /\ main' = [main EXCEPT !.engine = playback_engine,
                            !.at = IF playback_engine # 0 THEN "stop_lock" ELSE "timer"]
    /\ UNCHANGED <<unsaved_changes, playback_engine, engines, streams, loading_audio,
                   playback_timer, timers, workers, thread_calls, exited, fixed_play_vars>>

\* the callback worker w handed over has returned: a worker that waits for it
\* goes on
Released(w) == [workers EXCEPT ![w].pc = IF @ = "wait" THEN "finally" ELSE @]

\* _stop_playback: if self._playback_timer: the timer it refers to is stopped
\* and self._playback_timer = None; the waveform bar is hidden, and
\* _stop_playback returns to its caller; the return of _on_playback_error ends
\* the call_from_thread of the worker that called it
StopTimer ==
    /\ main.at = "timer"
    /\ playback_timer' = FALSE
    /\ timers' = (IF playback_timer THEN timers - 1 ELSE timers)
    /\ main' = (IF main.name = "action_quit" THEN [main EXCEPT !.at = "unsaved"] ELSE Idle)
    /\ IF main.name = "_on_playback_error"
       THEN /\ thread_calls' = Tail(thread_calls)
            /\ workers' = Released(Head(thread_calls).worker)
       ELSE UNCHANGED <<thread_calls, workers>>
    /\ UNCHANGED <<unsaved_changes, playback_engine, engines, streams, loading_audio,
                   exited, fixed_play_vars>>

\* action_quit: if self.unsaved_changes: the warning, and
\* self.unsaved_changes = False; else: self.exit()
QuitUnsaved ==
    /\ MainAt("action_quit", "unsaved")
    /\ IF unsaved_changes
       THEN unsaved_changes' = FALSE /\ UNCHANGED exited
       ELSE exited' = TRUE /\ UNCHANGED unsaved_changes
    /\ main' = Idle
    /\ UNCHANGED <<playback_engine, engines, streams, loading_audio, playback_timer, timers,
                   workers, thread_calls, fixed_play_vars>>

\* the threads that can be in PlaybackEngine.stop(): 0 is the main thread, in
\* _stop_playback, and w > 0 the worker w, in play_segment
Threads == {0} \cup DOMAIN workers

\* the statement thread t stands before
ThreadAt(t) == IF t = 0 THEN main.at ELSE workers[t].pc

\* the engine whose method thread t is in
ThreadEngine(t) == IF t = 0 THEN main.engine ELSE workers[t].engine

\* thread t moves to the statement
MoveThread(t, at) ==
    IF t = 0
    THEN main' = [main EXCEPT !.at = at] /\ UNCHANGED workers
    ELSE workers' = [workers EXCEPT ![t].pc = at] /\ UNCHANGED main

\* stop(): with self._lock: the thread waits until the lock is free and takes it
StopLock(t) ==
    /\ ThreadAt(t) = "stop_lock"
    /\ ~engines[ThreadEngine(t)].locked
    /\ engines' = [engines EXCEPT ![ThreadEngine(t)].locked = TRUE]
    /\ MoveThread(t, "stop_test")
    /\ UNCHANGED <<unsaved_changes, playback_engine, streams, loading_audio, playback_timer,
                   timers, thread_calls, exited, fixed_play_vars>>

\* stop(): if self._stream is not None
StopTest(t) ==
    /\ ThreadAt(t) = "stop_test"
    /\ MoveThread(t, IF engines[ThreadEngine(t)].stream # 0 THEN "stop_stream" ELSE "stop_playing")
    /\ UNCHANGED <<unsaved_changes, playback_engine, engines, streams, loading_audio,
                   playback_timer, timers, thread_calls, exited, fixed_play_vars>>

\* stop(): self._stream.stop(), on the stream the engine has at this moment
StopStream(t) ==
    /\ ThreadAt(t) = "stop_stream"
    /\ streams' = [streams EXCEPT ![engines[ThreadEngine(t)].stream].state = "stopped"]
    /\ MoveThread(t, "close_stream")
    /\ UNCHANGED <<unsaved_changes, playback_engine, engines, loading_audio, playback_timer,
                   timers, thread_calls, exited, fixed_play_vars>>

\* stop(): self._stream.close(), on the stream the engine has at this moment
CloseStream(t) ==
    /\ ThreadAt(t) = "close_stream"
    /\ streams' = [streams EXCEPT ![engines[ThreadEngine(t)].stream].state = "closed"]
    /\ MoveThread(t, "clear_stream")
    /\ UNCHANGED <<unsaved_changes, playback_engine, engines, loading_audio, playback_timer,
                   timers, thread_calls, exited, fixed_play_vars>>

\* stop(): self._stream = None
ClearStream(t) ==
    /\ ThreadAt(t) = "clear_stream"
    /\ engines' = [engines EXCEPT ![ThreadEngine(t)].stream = 0]
    /\ MoveThread(t, "stop_playing")
    /\ UNCHANGED <<unsaved_changes, playback_engine, streams, loading_audio, playback_timer,
                   timers, thread_calls, exited, fixed_play_vars>>

\* stop(): self._playing = False, the position is reset, the lock is released
\* and stop() returns: _stop_playback goes on to the timer, play_segment to
\* loading the audio
StopPlaying(t) ==
    /\ ThreadAt(t) = "stop_playing"
    /\ engines' = [engines EXCEPT ![ThreadEngine(t)].playing = FALSE,
                                  ![ThreadEngine(t)].locked = FALSE]
    /\ MoveThread(t, IF t = 0 THEN "timer" ELSE "load")
    /\ UNCHANGED <<unsaved_changes, playback_engine, streams, loading_audio, playback_timer,
                   timers, thread_calls, exited, fixed_play_vars>>

\* the worker moves to pc
WorkerAt(w, at) == workers' = [workers EXCEPT ![w].pc = at]

\* _start_playback_worker: self._loading_audio = True
SetLoading(w) ==
    /\ workers[w].pc = "start"
    /\ loading_audio' = TRUE
    /\ WorkerAt(w, "check")
    /\ UNCHANGED <<unsaved_changes, playback_engine, engines, streams, playback_timer, timers,
                   thread_calls, exited, main, fixed_play_vars>>

\* _start_playback_worker: if self.playback_engine is None
CheckEngine(w) ==
    /\ workers[w].pc = "check"
    /\ WorkerAt(w, IF playback_engine = 0 THEN "create" ELSE "play")
    /\ UNCHANGED <<unsaved_changes, playback_engine, engines, streams, loading_audio,
                   playback_timer, timers, thread_calls, exited, main, fixed_play_vars>>

\* _start_playback_worker: self.playback_engine = PlaybackEngine(self.audio_file),
\* which raises without PortAudio
CreateEngine(w) ==
    /\ workers[w].pc = "create"
    /\ IF sounddevice_available
       THEN /\ engines' = Append(engines, NewEngine)
            /\ playback_engine' = Len(engines) + 1
            /\ WorkerAt(w, "play")
       ELSE /\ WorkerAt(w, "except")
            /\ UNCHANGED <<engines, playback_engine>>
    /\ UNCHANGED <<unsaved_changes, streams, loading_audio, playback_timer, timers,
                   thread_calls, exited, main, fixed_play_vars>>

\* _start_playback_worker: self.playback_engine.play_segment(timestamp) is
\* called on the engine the editor has at this moment; play_segment: self.stop()
\* is called
BeginPlaySegment(w) ==
    /\ workers[w].pc = "play"
    /\ workers' = [workers EXCEPT ![w] = [pc |-> "stop_lock", engine |-> playback_engine]]
    /\ UNCHANGED <<unsaved_changes, playback_engine, engines, streams, loading_audio,
                   playback_timer, timers, thread_calls, exited, main, fixed_play_vars>>

\* play_segment: the audio is loaded and cut, and
\* self._stream = sd.OutputStream(...): the stream the engine had goes on as it
\* is
OpenStream(w) ==
    /\ workers[w].pc = "load"
    /\ streams' = Append(streams, NewStream(workers[w].engine))
    /\ engines' = [engines EXCEPT ![workers[w].engine].stream = Len(streams) + 1]
    /\ WorkerAt(w, "set_playing")
    /\ UNCHANGED <<unsaved_changes, playback_engine, loading_audio, playback_timer, timers,
                   thread_calls, exited, main, fixed_play_vars>>

\* play_segment: self._playing = True
SetPlaying(w) ==
    /\ workers[w].pc = "set_playing"
    /\ engines' = [engines EXCEPT ![workers[w].engine].playing = TRUE]
    /\ WorkerAt(w, "start_stream")
    /\ UNCHANGED <<unsaved_changes, playback_engine, streams, loading_audio, playback_timer,
                   timers, thread_calls, exited, main, fixed_play_vars>>

\* Stream.start() on stream s: a stream that is open or stopped plays, one
\* that plays or has played to its end stays as it is
Started(s) ==
    [streams EXCEPT ![s].state = IF @ \in {"open", "stopped"} THEN "active" ELSE @]

\* play_segment: self._stream.start(), on the stream the engine has at this
\* moment, and the return. It raises AttributeError when a stop() has set
\* _stream to None; on a stream a stop() has closed it raises or returns
EndPlaySegment(w) ==
    /\ workers[w].pc = "start_stream"
    /\ LET s == engines[workers[w].engine].stream
       IN IF s = 0
          THEN /\ WorkerAt(w, "except")
               /\ UNCHANGED streams
          ELSE IF streams[s].state = "closed"
          THEN /\ \E at \in {"except", "started"} : WorkerAt(w, at)
               /\ UNCHANGED streams
          ELSE /\ streams' = Started(s)
               /\ WorkerAt(w, "started")
    /\ UNCHANGED <<unsaved_changes, playback_engine, engines, loading_audio, playback_timer,
                   timers, thread_calls, exited, main, fixed_play_vars>>

\* _start_playback_worker: self.call_from_thread(...), of _on_playback_started
\* or, in the except branch, of _on_playback_error: the callback is handed to
\* the main thread, and the worker goes on or waits for the callback to return
CallFromThread(w) ==
    /\ workers[w].pc \in {"started", "except"}
    /\ thread_calls' = Append(thread_calls,
                              [call |-> IF workers[w].pc = "started" THEN "started" ELSE "error",
                               worker |-> w])
    /\ \E at \in {"finally", "wait"} : WorkerAt(w, at)
    /\ UNCHANGED <<unsaved_changes, playback_engine, engines, streams, loading_audio,
                   playback_timer, timers, exited, main, fixed_play_vars>>

\* _start_playback_worker: finally: self._loading_audio = False
Finally(w) ==
    /\ workers[w].pc = "finally"
    /\ loading_audio' = FALSE
    /\ WorkerAt(w, "done")
    /\ UNCHANGED <<unsaved_changes, playback_engine, engines, streams, playback_timer, timers,
                   thread_calls, exited, main, fixed_play_vars>>

\* _on_playback_started, on the main thread: the waveform bar is shown and
\* self._playback_timer = self.set_interval(...): a new timer runs, and a timer
\* the attribute referred to runs on; a worker that waits for the callback
\* goes on
OnPlaybackStarted ==
    /\ ~exited
    /\ MainIdle
    /\ thread_calls # <<>> /\ Head(thread_calls).call = "started"
    /\ thread_calls' = Tail(thread_calls)
    /\ workers' = Released(Head(thread_calls).worker)
    /\ playback_timer' = TRUE
    /\ timers' = timers + 1
    /\ UNCHANGED <<unsaved_changes, playback_engine, engines, streams, loading_audio,
                   exited, main, fixed_play_vars>>

\* _on_playback_error, on the main thread: the notification, and
\* _stop_playback is called
OnPlaybackError ==
    /\ ~exited
    /\ MainIdle
    /\ thread_calls # <<>> /\ Head(thread_calls).call = "error"
    /\ main' = Enter("_on_playback_error", "loading")
    /\ UNCHANGED <<unsaved_changes, playback_engine, engines, streams, loading_audio,
                   playback_timer, timers, workers, thread_calls, exited, fixed_play_vars>>

\* the callback play_segment gave stream s, at the end of the audio: with
\* self._lock: self._playing = False, on the engine that created the stream,
\* and CallbackStop
CallbackStop(s) ==
    /\ streams[s].state = "active"
    /\ ~engines[streams[s].engine].locked
    /\ streams' = [streams EXCEPT ![s].state = "finishing"]
    /\ engines' = [engines EXCEPT ![streams[s].engine].playing = FALSE]
    /\ UNCHANGED <<unsaved_changes, playback_engine, loading_audio, playback_timer, timers,
                   workers, thread_calls, exited, main, fixed_play_vars>>

\* PlaybackEngine._on_finished, the finished_callback of stream s: with
\* self._lock: self._playing = False
OnFinished(s) ==
    /\ streams[s].state = "finishing"
    /\ ~engines[streams[s].engine].locked
    /\ streams' = [streams EXCEPT ![s].state = "finished"]
    /\ engines' = [engines EXCEPT ![streams[s].engine].playing = FALSE]
    /\ UNCHANGED <<unsaved_changes, playback_engine, loading_audio, playback_timer, timers,
                   workers, thread_calls, exited, main, fixed_play_vars>>

\* a timer that runs calls _update_waveform_display, which reads
\* self.playback_engine
UpdateWaveformDisplay ==
    /\ ~exited
    /\ MainIdle
    /\ timers > 0
    /\ main' = [name |-> "_update_waveform_display", at |-> "is_playing",
                engine |-> playback_engine]
    /\ UNCHANGED <<unsaved_changes, playback_engine, engines, streams, loading_audio,
                   playback_timer, timers, workers, thread_calls, exited, fixed_play_vars>>

\* _update_waveform_display: if not self.playback_engine or not
\* self.playback_engine.is_playing(): on to _stop_playback; else on to the
\* position; is_playing() waits for the lock
WaveformIsPlaying ==
    /\ MainAt("_update_waveform_display", "is_playing")
    /\ Unlocked(main.engine)
    /\ main' = [main EXCEPT !.at = IF main.engine # 0 /\ engines[main.engine].playing
                                   THEN "position" ELSE "loading"]
    /\ UNCHANGED <<unsaved_changes, playback_engine, engines, streams, loading_audio,
                   playback_timer, timers, workers, thread_calls, exited, fixed_play_vars>>

\* _update_waveform_display: position = self.playback_engine.get_position() is
\* called on the engine the editor has at this moment
WaveformPosition ==
    /\ MainAt("_update_waveform_display", "position")
    /\ main' = [main EXCEPT !.engine = playback_engine, !.at = "get_position"]
    /\ UNCHANGED <<unsaved_changes, playback_engine, engines, streams, loading_audio,
                   playback_timer, timers, workers, thread_calls, exited, fixed_play_vars>>

\* get_position() waits for the lock and returns; the display is updated and
\* _update_waveform_display returns
GetPosition ==
    /\ MainAt("_update_waveform_display", "get_position")
    /\ Unlocked(main.engine)
    /\ main' = Idle
    /\ UNCHANGED <<unsaved_changes, playback_engine, engines, streams, loading_audio,
                   playback_timer, timers, workers, thread_calls, exited, fixed_play_vars>>

\* the tracklists the editor is opened on: none with a track, and one
PlayTracklists == {<<>>, <<PlainTrack(0, <<"p">>, <<"t">>)>>}

\* TracklistEditor.__init__, after run_editor with an empty store
PlayInit ==
    /\ ReconIdle /\ LoadIdle /\ RunIdle /\ RetryIdle /\ BatchIdle /\ MarkdownIdle
    /\ corrections = <<>>
    /\ before \in PlayTracklists
    /\ tracklist = OpenedWith(NoFile, before).tracks
    /\ applied = OpenedWith(NoFile, before).applied
    /\ audio_file \in BOOLEAN
    /\ sounddevice_available \in BOOLEAN
    /\ unsaved_changes \in BOOLEAN
    /\ playback_engine = 0
    /\ engines = <<>>
    /\ streams = <<>>
    /\ loading_audio = FALSE
    /\ playback_timer = FALSE
    /\ timers = 0
    /\ workers = <<>>
    /\ thread_calls = <<>>
    /\ exited = FALSE
    /\ main = Idle

PlayNext ==
    \/ ActionPlay
    \/ PlayIsPlaying
    \/ PlayCheckLoading
    \/ PlayStartWorker
    \/ ActionCursor
    \/ ActionQuit
    \/ StopLoading
    \/ StopEngine
    \/ StopTimer
    \/ QuitUnsaved
    \/ \E t \in Threads : StopLock(t)
    \/ \E t \in Threads : StopTest(t)
    \/ \E t \in Threads : StopStream(t)
    \/ \E t \in Threads : CloseStream(t)
    \/ \E t \in Threads : ClearStream(t)
    \/ \E t \in Threads : StopPlaying(t)
    \/ \E w \in DOMAIN workers : SetLoading(w)
    \/ \E w \in DOMAIN workers : CheckEngine(w)
    \/ \E w \in DOMAIN workers : CreateEngine(w)
    \/ \E w \in DOMAIN workers : BeginPlaySegment(w)
    \/ \E w \in DOMAIN workers : OpenStream(w)
    \/ \E w \in DOMAIN workers : SetPlaying(w)
    \/ \E w \in DOMAIN workers : EndPlaySegment(w)
    \/ \E w \in DOMAIN workers : CallFromThread(w)
    \/ \E w \in DOMAIN workers : Finally(w)
    \/ OnPlaybackStarted
    \/ OnPlaybackError
    \/ \E s \in DOMAIN streams : CallbackStop(s)
    \/ \E s \in DOMAIN streams : OnFinished(s)
    \/ UpdateWaveformDisplay
    \/ WaveformIsPlaying
    \/ WaveformPosition
    \/ GetPosition

SpecPlay == PlayInit /\ [][PlayNext]_vars

\* the workers that have not returned
RunningWorkers == {w \in DOMAIN workers : IsRunning(w)}

\* C30: at every moment at most one _start_playback_worker is running and at
\* most one PlaybackEngine has been created, whatever the order of the key
\* presses and of the worker's steps
C30_OneWorkerOneEngine ==
    /\ Cardinality(RunningWorkers) <= 1
    /\ Len(engines) <= 1

\* what the code does (C30): action_play returns without a change when it
\* finds _loading_audio set, and a worker is started only by an action_play that
\* found nothing playing and the flag unset, whatever they have become since
C30_PlayIgnoredWhileFlagSet ==
    [][/\ (MainAt("action_play", "check_loading") /\ loading_audio /\ main' # main) =>
             (main' = Idle /\ UNCHANGED <<unsaved_changes, playback_vars_but_main>>)
       /\ Len(workers') # Len(workers) =>
             /\ MainAt("action_play", "start_worker")
             /\ audio_file
             /\ HasCurrentTrack
             /\ main' = Idle]_vars

\* a worker is loading the audio, with _loading_audio cleared by a cursor
\* move, and a second worker has been started: two workers run
C30_TwoWorkersWitness ==
    /\ Len(workers) = 2
    /\ workers[1].pc = "load"
    /\ workers[2].pc = "start"
    /\ ~loading_audio
    /\ MainIdle

\* two workers have each created a PlaybackEngine
C30_TwoEnginesWitness == Len(engines) = 2

\* a worker set _loading_audio between two statements of _stop_playback and
\* has started the stream: the handler has returned, the flag is set, and the
\* engine it stopped does not play
C30_StopOvertakenWitness ==
    /\ MainIdle
    /\ Len(workers) = 2
    /\ workers[1].pc = "done"
    /\ workers[2].pc = "started"
    /\ loading_audio
    /\ Len(engines) = 1
    /\ ~engines[1].playing

\* play_segment raised because a stop() came between the opening of the stream
\* and its start
C30_StartRaisedWitness ==
    /\ sounddevice_available
    /\ \E w \in DOMAIN workers : workers[w].pc = "except"

\* ---------------------------------------------------------------------------
\* The JSON sidecar: Tracklist.to_json, TracklistEditor.action_save and
\* _load_tracklist_with_artwork_urls (SpecSidecar)
\* ---------------------------------------------------------------------------

MaxSidecarTracks == 3

\* the record to_json writes for one track
to_json_record(t) ==
    [timestamp |-> t.timestamp,
     time |-> time_str(t.timestamp),
     artist |-> t.artist,
     title |-> t.title,
     rejected |-> t.rejected,
     shazam_url |-> t.shazam_url,
     album |-> t.album]

\* Tracklist.to_json(): the records of the tracks that are not rejected
RECURSIVE to_json(_)
to_json(tracks) ==
    IF tracks = <<>> THEN <<>>
    ELSE (IF Head(tracks).rejected THEN <<>> ELSE <<to_json_record(Head(tracks))>>)
         \o to_json(Tail(tracks))

\* obj.name = value, dict[name] = value: Track is no slots class, so an
\* attribute that is no field can be set
SetAttr(obj, name, value) ==
    [f \in DOMAIN obj \cup {name} |-> IF f = name THEN value ELSE obj[f]]

\* the truth value of a string or None
Truthy(x) == x # None /\ x # <<>>

\* one pass of "for i, jt in enumerate(json_tracks)": i counts from 0
LoadUrl(st, i, jt) ==
    LET url == Get(jt, "coverart_url")
    IN IF Truthy(url) /\ i < Len(st.tracks)
       THEN [tracks |-> [st.tracks EXCEPT ![i + 1] = SetAttr(@, "coverart_url", url)],
             coverart_urls |-> SetAttr(st.coverart_urls, i, url)]
       ELSE st

\* the loop over json_tracks from index i on
RECURSIVE LoadUrls(_, _, _)
LoadUrls(st, i, json_tracks) ==
    IF i >= Len(json_tracks) THEN st
    ELSE LoadUrls(LoadUrl(st, i, json_tracks[i + 1]), i + 1, json_tracks)

\* what _load_tracklist_with_artwork_urls returns after the loop
Loaded(tl, st) ==
    [tracklist |-> [tl EXCEPT !.tracks = st.tracks], coverart_urls |-> st.coverart_urls]

\* _load_tracklist_with_artwork_urls once the markdown is parsed: the loop over
\* the sidecar's records if there is a sidecar, the fallback otherwise
LoadInto(tl, json_file) ==
    IF json_file.exists
    THEN Loaded(tl, LoadUrls([tracks |-> tl.tracks, coverart_urls |-> <<>>], 0, json_file.tracks))
    ELSE [tracklist |-> tl, coverart_urls |-> <<>>]

\* _load_tracklist_with_artwork_urls(tracklist_path) on the two files: the
\* tracklist and the dict it returns
load_tracklist_with_artwork_urls(content, json_file) ==
    LoadInto(parse_markdown_tracklist(content), json_file)

\* the artwork URL of the track at position i
SidecarUrl(i) == <<"c", DigitChars[i + 1]>>

\* the timestamp of the track at position i: 0:00, 3:00, 6:00
SidecarTime(i) == 180 * (i - 1)

\* the tracks the editor may be opened with at position i, as
\* parse_markdown_tracklist builds them: identified or not
SidecarTracksAt(i) ==
    {ParsedTrack(SidecarTime(i), <<"p">>, <<"t">>), PlainTrack(SidecarTime(i), <<>>, <<>>)}

RECURSIVE SidecarLists(_)
SidecarLists(n) ==
    IF n = 0 THEN {<<>>}
    ELSE {Append(tracks, track) : tracks \in SidecarLists(n - 1), track \in SidecarTracksAt(n)}

\* whether the object has the attribute
HasAttr(obj, name) == name \in DOMAIN obj

\* the tracks with the artwork URL of its position on each track at a position
\* in urls
WithUrls(tracks, urls) ==
    [k \in DOMAIN tracks |->
        IF k \in urls THEN SetAttr(tracks[k], "coverart_url", SidecarUrl(k)) ELSE tracks[k]]

\* the records of a sidecar that has one only for the tracks at the positions
\* in keep, each with the track's artwork URL
RECURSIVE RecordsOf(_, _, _)
RecordsOf(tracks, keep, i) ==
    IF i > Len(tracks) THEN <<>>
    ELSE (IF i \in keep /\ ~tracks[i].rejected
          THEN <<IF HasAttr(tracks[i], "coverart_url")
                 THEN SetAttr(to_json_record(tracks[i]), "coverart_url", tracks[i].coverart_url)
                 ELSE to_json_record(tracks[i])>>
          ELSE <<>>)
         \o RecordsOf(tracks, keep, i + 1)

\* action_save, key s: the markdown and the sidecar of the tracklist are
\* written, the store is saved if the editor has one, and the changes count as
\* saved; md_tracks keeps the tracks that were written
ActionSave ==
    /\ EditorOpen
    /\ main.name = "idle"
    /\ md_pc \in {"start", "saved"}
    /\ md_tracks' = tracklist
    /\ markdown' = to_markdown(SourceName, Now, tracklist)
    /\ sidecar' = [exists |-> TRUE, tracks |-> to_json(tracklist)]
    /\ db_file' = (IF HasStore THEN SavedStore(corrections) ELSE db_file)
    /\ unsaved_changes' = FALSE
    /\ md_pc' = "saved"
    /\ UNCHANGED <<parsed, coverart_urls, store_vars, db_pc, db_raised, corrections_type,
                   beside_editor_vars>>

\* the two files as they lie on disk when the sidecar holds artwork URLs for the
\* tracks at the positions in urls and lacks the record of the tracks outside
\* keep; md_tracks keeps the tracks the files describe
WriteFiles(keep, urls) ==
    /\ db_pc = "new"
    /\ md_pc = "start"
    /\ md_tracks' = WithUrls(tracklist, urls)
    /\ markdown' = to_markdown(SourceName, Now, tracklist)
    /\ sidecar' = [exists |-> TRUE, tracks |-> RecordsOf(WithUrls(tracklist, urls), keep, 1)]
    /\ md_pc' = "on disk"
    /\ UNCHANGED <<parsed, coverart_urls, beside_md_vars>>

\* _load_tracklist_with_artwork_urls on the files, once the editor that saved
\* them has exited
Load ==
    /\ md_pc = "on disk" \/ (md_pc = "saved" /\ exited)
    /\ parsed' = load_tracklist_with_artwork_urls(markdown, sidecar).tracklist
    /\ coverart_urls' = load_tracklist_with_artwork_urls(markdown, sidecar).coverart_urls
    /\ md_pc' = (IF md_pc = "saved" THEN "reloaded" ELSE "loaded")
    /\ UNCHANGED <<md_tracks, markdown, sidecar, beside_md_vars>>

\* a parsed tracklist, no files beside it, and no editor yet
SidecarInit ==
    /\ ReconIdle /\ RunIdle /\ RetryIdle /\ BatchIdle /\ MarkdownIdle /\ PlayIdle
    /\ corrections = <<>>
    /\ tracklist \in UNION {SidecarLists(n) : n \in 0..MaxSidecarTracks}
    /\ before = <<>>
    /\ applied = NoInt
    /\ db_file = NoFile
    /\ db_pc = "new"
    /\ db_raised = "none"
    /\ corrections_type = "dict"

SidecarNext ==
    \/ \E use_corrections \in BOOLEAN : RunEditor(use_corrections)
    \/ \E i \in 1..MaxSidecarTracks : ToggleReject(i)
    \/ EditComplete(1, <<"q">>, <<"b">>)
    \/ ActionSave
    \/ ActionQuit
    \/ StopLoading
    \/ StopEngine
    \/ StopTimer
    \/ QuitUnsaved
    \/ \E keep \in SUBSET (1..MaxSidecarTracks) : \E urls \in SUBSET keep : WriteFiles(keep, urls)
    \/ Load

SpecSidecar == SidecarInit /\ [][SidecarNext]_vars

\* the sidecar records that have the timestamp and a URL
RecordsAt(timestamp) ==
    {r \in DOMAIN sidecar.tracks :
        /\ sidecar.tracks[r].timestamp = timestamp
        /\ Truthy(Get(sidecar.tracks[r], "coverart_url"))}

\* the loaded track at position k has the URL and the dict has it at index k - 1
UrlAttached(k, url) ==
    /\ HasAttr(parsed.tracks[k], "coverart_url")
    /\ parsed.tracks[k].coverart_url = url
    /\ (k - 1) \in DOMAIN coverart_urls
    /\ coverart_urls[k - 1] = url

\* the loaded track at position k has no URL and the dict has none at index k - 1
NoUrlAttached(k) ==
    /\ ~HasAttr(parsed.tracks[k], "coverart_url")
    /\ (k - 1) \notin DOMAIN coverart_urls

\* C21: after _load_tracklist_with_artwork_urls, each markdown track has the
\* artwork URL of the sidecar record with the track's own timestamp, and a track
\* whose timestamp no sidecar record has gets no URL
C21_UrlByTimestamp ==
    md_pc = "loaded" =>
        \A k \in DOMAIN parsed.tracks :
            IF RecordsAt(parsed.tracks[k].timestamp) = {}
            THEN NoUrlAttached(k)
            ELSE \E r \in RecordsAt(parsed.tracks[k].timestamp) :
                    UrlAttached(k, sidecar.tracks[r].coverart_url)

\* what the code does (C21): the track at list position k gets the URL of the
\* sidecar record at list position k, whatever the timestamps are
C21_UrlByPosition ==
    md_pc = "loaded" =>
        \A k \in DOMAIN parsed.tracks :
            IF k <= Len(sidecar.tracks) /\ Truthy(Get(sidecar.tracks[k], "coverart_url"))
            THEN UrlAttached(k, sidecar.tracks[k].coverart_url)
            ELSE NoUrlAttached(k)

\* the files of test_matches_by_timestamp_not_index were loaded: three tracks,
\* a sidecar without a record for the second, and the second track got the
\* URL of the third
C21_ShiftedWitness ==
    /\ md_pc = "loaded"
    /\ Len(parsed.tracks) = 3
    /\ Len(sidecar.tracks) = 2
    /\ sidecar.tracks[2].timestamp = SidecarTime(3)
    /\ UrlAttached(2, SidecarUrl(3))
    /\ NoUrlAttached(3)

\* the fields of a Track, and the artwork URL a load attaches to it
SidecarFields == TrackFields \cup {"coverart_url"}

\* the keys of the records to_json writes
ToJsonKeys == {"timestamp", "time", "artist", "title", "rejected", "shazam_url", "album"}

\* the positions of the saved tracks that are not rejected and have an artwork URL
KeptWithUrl == {k \in DOMAIN Kept(md_tracks) : HasAttr(Kept(md_tracks)[k], "coverart_url")}

\* C22: the sidecar action_save writes holds one record per track that is not
\* rejected, with every field of the track and its artwork URL, and the
\* tracklist loaded back through the sidecar has each track's artwork URL
\* unchanged
C22_SidecarKeepsUrl ==
    /\ md_pc \in {"saved", "reloaded"} =>
          /\ Len(sidecar.tracks) = Len(Kept(md_tracks))
          /\ \A k \in DOMAIN sidecar.tracks :
                /\ SidecarFields \subseteq DOMAIN sidecar.tracks[k]
                /\ \A f \in DOMAIN Kept(md_tracks)[k] :
                      sidecar.tracks[k][f] = Kept(md_tracks)[k][f]
    /\ md_pc = "reloaded" =>
          \A k \in KeptWithUrl : UrlAttached(k, Kept(md_tracks)[k].coverart_url)

\* what the code does (C22): the sidecar holds one record per track that is not
\* rejected, with the keys timestamp, time, artist, title, rejected, shazam_url
\* and album and no others, and the tracklist loaded back has no artwork URL
C22_SidecarDropsUrl ==
    /\ md_pc \in {"saved", "reloaded"} =>
          /\ Len(sidecar.tracks) = Len(Kept(md_tracks))
          /\ \A k \in DOMAIN sidecar.tracks :
                /\ DOMAIN sidecar.tracks[k] = ToJsonKeys
                /\ \A f \in ToJsonKeys \ {"time"} :
                      sidecar.tracks[k][f] = Kept(md_tracks)[k][f]
                /\ sidecar.tracks[k].time = time_str(Kept(md_tracks)[k].timestamp)
    /\ md_pc = "reloaded" =>
          /\ coverart_urls = <<>>
          /\ Len(parsed.tracks) = Len(Kept(md_tracks))
          /\ \A k \in DOMAIN parsed.tracks : NoUrlAttached(k)

\* a tracklist of three tracks with the second one rejected was saved and
\* loaded back: the sidecar has two records, none with an artwork URL or an
\* original value, and no URL came back
C22_LostWitness ==
    /\ md_pc = "reloaded"
    /\ Len(md_tracks) = 3
    /\ md_tracks[2].rejected
    /\ Len(sidecar.tracks) = 2
    /\ \A k \in DOMAIN sidecar.tracks :
          {"coverart_url", "original_artist"} \cap DOMAIN sidecar.tracks[k] = {}
    /\ Len(parsed.tracks) = 2
    /\ coverart_urls = <<>>

====
